---- MODULE Spec2Model ----
(***************************************************************************)
(* Model of the conversation orchestration core of the CrewAI meeting      *)
(* backend:                                                                *)
(*   - app/api/meeting_stream.py: the SSE connection manager, the start    *)
(*     handler with force_restart, the background conversation loop        *)
(*     run_agent_conversation and the typewriter broadcast;                *)
(*   - app/agents/configurable_agent.py: ConfigurableAgent.should_speak_now*)
(*     and MeetingAgentManager (the roster and calculate_next_speaker).    *)
(*                                                                         *)
(* Scheduling is asyncio's: one event loop, tasks switch only at an await  *)
(* that really suspends.  `running` names the conversation loop that holds *)
(* the event loop between two suspension points; handlers and other tasks  *)
(* run only when it is 0.                                                  *)
(***************************************************************************)
EXTENDS Integers, Sequences, FiniteSets, TLC

VARIABLES
    \* ---- meeting_stream.py -------------------------------------------
    meeting_cfg,            \* the meetings table: status, topic, meeting_rules, and
                            \* the meeting's rows of meeting_participants
    agents_config,          \* the agents_config table
    messages,               \* the meeting_messages table, in insertion order
    active_conversations,   \* module global: ids of meetings with a conversation
    connections,            \* sse_manager.connections: meeting id -> list of queues
    queue,                  \* contents of each subscriber's asyncio.Queue
    sub,                    \* each event_generator: its position and what it yielded
    loops,                  \* each run_agent_conversation background task
    running,                \* the loop now holding the event loop, 0 when none does
    \* ---- configurable_agent.py ---------------------------------------
    score_in,               \* inputs of the last should_speak_now evaluation
    score_out,              \* its result
    agents,                 \* MeetingAgentManager.agents: ids in insertion order
    agent_obj,              \* the ConfigurableAgent of each id in the roster
    speaker_call,           \* inputs and result of the last calculate_next_speaker
    \* ---- meeting_scheduler.py, meetings.py -----------------------------
    active_meetings,        \* scheduler.active_meetings: meeting id -> its state dict
    meeting_state,          \* the state dicts ever created by initialize_meeting
    cycles,                 \* each run_meeting_with_broadcasting background task
    forces,                 \* each force-speak request
    ws_sent,                \* the events handed to meeting_manager.broadcast_to_meeting
    agent_ver,              \* how many ConfigurableAgent objects were made for an id
    controls,               \* number of pause, resume and stop requests so far
    start_status            \* HTTP status of the last schedule/start answer per id

stream_vars == <<meeting_cfg, agents_config, messages, active_conversations, connections, queue,
                 sub, loops, running>>
score_vars == <<score_in, score_out>>
roster_vars == <<agents, agent_obj, speaker_call>>
sched_vars == <<active_meetings, meeting_state, cycles, forces, ws_sent, agent_ver, controls,
                start_status>>
vars == <<stream_vars, score_vars, roster_vars, sched_vars>>

(***************************************************************************)
(* Bounds of the model.                                                    *)
(***************************************************************************)
MaxLoops == 2           \* run_agent_conversation tasks ever scheduled
MaxRounds == 1          \* largest meeting_rules.discussion_rounds
MaxSubs == 2            \* SSE connections ever opened
MaxChars == 2           \* characters of a literal text
TextLen == 1            \* characters of a generated message
MaxHeartbeats == 2      \* heartbeats one connection yields
MaxPauses == 1          \* pause requests
MaxRecent == 4          \* length of a recent_speakers list
MaxResponseCount == 3   \* responses counted for one agent
MaxRoster == 3          \* agents of one MeetingAgentManager

\* The rows of the meetings table.  Meetings share only the tables and the event
\* loop; 0 is an id with no row.
Meetings == {1}
MeetingIds == Meetings \cup {0}
LoopIds == 1..MaxLoops
QueueIds == 1..MaxSubs

(***************************************************************************)
(* Small helpers on sequences.                                             *)
(***************************************************************************)
Range(s) == {s[i] : i \in 1..Len(s)}

Min(a, b) == IF a <= b THEN a ELSE b
Max(a, b) == IF a >= b THEN a ELSE b

RECURSIVE SelectIdx(_, _, _)
\* the elements of s at the indices in keep, in order
SelectIdx(s, keep, i) ==
    IF i > Len(s) THEN <<>>
    ELSE (IF i \in keep THEN <<s[i]>> ELSE <<>>) \o SelectIdx(s, keep, i + 1)

Reverse(s) == [i \in 1..Len(s) |-> s[Len(s) + 1 - i]]

Take(s, n) == IF Len(s) <= n THEN s ELSE SubSeq(s, 1, n)

\* s[-n:]
LastN(s, n) == IF Len(s) <= n THEN s ELSE SubSeq(s, Len(s) - n + 1, Len(s))

\* list.remove(x): drops the first occurrence
RemoveFirst(s, x) ==
    IF x \notin Range(s) THEN s
    ELSE LET i == CHOOSE k \in 1..Len(s) : s[k] = x /\ \A j \in 1..(k - 1) : s[j] # x
         IN SubSeq(s, 1, i - 1) \o SubSeq(s, i + 1, Len(s))

(***************************************************************************)
(* Text.  A string is a sequence of word tokens; lower() and the keyword   *)
(* scans (`keyword in text`) work on the tokens.                           *)
(***************************************************************************)
LowerWord(w) ==
    CASE w = "Interview" -> "interview"
      [] w = "CTO" -> "cto"
      [] w = "HR" -> "hr"
      [] w = "React" -> "react"
      [] w = "REACT" -> "react"
      [] w = "Budget" -> "budget"
      [] w = "Risk" -> "risk"
      [] OTHER -> w

Lower(text) == [i \in 1..Len(text) |-> LowerWord(text[i])]

\* any(keyword in text for keyword in keywords)
ContainsAny(text, keywords) == \E i \in 1..Len(text) : text[i] \in keywords

\* the source's Chinese keywords are written in pinyin
InterviewKeywords == {"mianshi", "zhaopin", "interview", "qiuzhi"}
InterviewerKeywords == {"ceo", "cto", "mianshiguan", "jingli", "zhuguan", "hr"}

\* is_interview, as run_agent_conversation and generate_contextual_response compute it
IsInterviewTopic(topic) == ContainsAny(Lower(topic), InterviewKeywords)

(***************************************************************************)
(* The agents_config table.  Each row: name, role, expertise_areas and     *)
(* is_active.  AgentTables lists the tables a run may start from.          *)
(***************************************************************************)
AgentIds == {1, 2}

AgentRow(name, role, expertise, active) ==
    [name |-> name, role |-> role, expertise_areas |-> expertise, is_active |-> active]

AgentTables ==
    { \* an interviewer and a candidate with different expertise
      [a \in AgentIds |-> IF a = 1 THEN AgentRow(<<"alice">>, <<"CTO">>, <<"risk">>, TRUE)
                                   ELSE AgentRow(<<"bob">>, <<"engineer">>, <<"react">>, TRUE)],
      \* two personas with the same role and the same first expertise area
      [a \in AgentIds |-> IF a = 1 THEN AgentRow(<<"carol">>, <<"engineer">>, <<"react">>, TRUE)
                                   ELSE AgentRow(<<"dave">>, <<"engineer">>, <<"react">>, TRUE)],
      \* no expertise configured, second persona inactive
      [a \in AgentIds |-> IF a = 1 THEN AgentRow(<<"erin">>, <<"analyst">>, <<>>, TRUE)
                                   ELSE AgentRow(<<"frank">>, <<"analyst">>, <<>>, FALSE)] }

Topics == {<<"budget", "plan">>, <<"frontend", "Interview">>}

\* meeting_rules['discussion_rounds'] when the key is present
RoundChoices == 0..MaxRounds

(***************************************************************************)
(* Events put on the subscriber queues.  `loop` is a ghost tag (the task   *)
(* that published the event, or that a conversation_reset starts); the     *)
(* program's events carry no such field.  `text` is the partial_content of *)
(* a message_typing event and the final_content of a message_complete      *)
(* event, and empty for the other events.                                  *)
(***************************************************************************)
Event(type, m, l, msg, pos) ==
    [type |-> type, meeting |-> m, loop |-> l, msg |-> msg, pos |-> pos, text |-> <<>>]

MessageEventTypes == {"message_start", "message_typing", "message_complete"}

\* SSEConnectionManager.connections is a dict from meeting ids to lists of queues;
\* the model's value is a function whose domain is the set of keys of the dict
NoConnections == [m \in {} |-> <<>>]

\* the queues registered for m (`if meeting_id in self.connections`)
QueuesOf(conns, m) == IF m \in DOMAIN conns THEN conns[m] ELSE <<>>

\* SSEConnectionManager.add_connection
add_connection(conns, m, q) ==
    IF m \in DOMAIN conns
    THEN [conns EXCEPT ![m] = Append(@, q)]
    ELSE [k \in DOMAIN conns \cup {m} |-> IF k = m THEN <<q>> ELSE conns[k]]

\* variant of remove_connection that keeps the key of an emptied list
remove_connection_keep(conns, m, q) ==
    IF m \in DOMAIN conns /\ q \in Range(conns[m])
    THEN [conns EXCEPT ![m] = RemoveFirst(@, q)]
    ELSE conns

\* SSEConnectionManager.remove_connection
remove_connection(conns, m, q) ==
    IF m \in DOMAIN conns /\ q \in Range(conns[m])
    THEN LET rest == RemoveFirst(conns[m], q)
         IN IF rest = <<>>
            THEN [k \in DOMAIN conns \ {m} |-> conns[k]]
            ELSE [conns EXCEPT ![m] = rest]
    ELSE conns

\* lines 52-55: remove_connection for every queue of the list `bad`
RECURSIVE RemoveAll(_, _, _)
RemoveAll(conns, m, bad) ==
    IF bad = <<>> THEN conns
    ELSE RemoveAll(remove_connection(conns, m, Head(bad)), m, Tail(bad))

\* variant of the broadcast that lets the exception of a put end the loop over the
\* queues: the queues after the first failing one are not served and no queue is
\* removed
broadcast_raising(conns, qs, m, e, failed) ==
    LET regs == QueuesOf(conns, m)
        served == {i \in 1..Len(regs) : \A j \in 1..i : regs[j] \notin failed}
    IN [queue |-> [q \in QueueIds |->
                     IF \E i \in served : regs[i] = q THEN Append(qs[q], e) ELSE qs[q]],
        connections |-> conns]

\* SSEConnectionManager.broadcast_to_meeting (lines 43-55) when the put raises on the
\* queues of `failed`: the event is put on the other queues of m, the failing
\* queues are collected and removed afterwards; the result is the queues and the
\* dict after the call, which returns normally
broadcast(conns, qs, m, e, failed) ==
    LET regs == QueuesOf(conns, m)
        disconnected_queues == SelectIdx(regs, {i \in 1..Len(regs) : regs[i] \in failed}, 1)
    IN [queue |-> [q \in QueueIds |->
                     IF q \in Range(regs) \ failed THEN Append(qs[q], e) ELSE qs[q]],
        connections |-> RemoveAll(conns, m, disconnected_queues)]

\* variant of the broadcast that puts the event on every queue of the server
broadcast_to_meeting_all(conns, qs, m, e) == [q \in QueueIds |-> Append(qs[q], e)]

\* SSEConnectionManager.broadcast_to_meeting with queues that accept every put (an
\* asyncio.Queue() is unbounded): put the event on every queue of m
broadcast_to_meeting(conns, qs, m, e) ==
    [q \in QueueIds |-> IF q \in Range(QueuesOf(conns, m)) THEN Append(qs[q], e) ELSE qs[q]]

(***************************************************************************)
(* MeetingService.get_meeting_messages: the meeting's rows, newest first,  *)
(* at most `limit` of them.                                                *)
(***************************************************************************)
get_meeting_messages(msgs, m, limit) ==
    Take(Reverse(SelectIdx(msgs, {i \in 1..Len(msgs) : msgs[i].meeting = m}, 1)), limit)

ExistingLimit == 50     \* run_agent_conversation loads at most 50 messages
ReplayLimit == 100      \* event_generator replays at most 100 messages

(***************************************************************************)
(* Generation.                                                             *)
(***************************************************************************)
Text(tpl, topic, arg) == [tpl |-> tpl, topic |-> topic, arg |-> arg]

\* a response of None (no text at all)
NoResponse == Text(-1, <<>>, <<>>)

\* generate_discussion_response: one of four templates, chosen by message_count
generate_discussion_response(agent, topic, message_count) ==
    LET first == IF agent.expertise_areas # <<>> THEN <<agent.expertise_areas[1]>>
                 ELSE <<>>
        k == message_count % 4
    IN CASE k = 0 -> Text(0, topic, IF first # <<>> THEN first ELSE <<"related_field">>)
         [] k = 1 -> Text(1, <<>>, agent.role)
         [] k = 2 -> Text(2, topic, <<>>)
         [] OTHER -> Text(3, <<>>, IF first # <<>> THEN first ELSE <<"professional">>)

\* generate_contextual_response.  In interview mode it calls
\* generate_interview_response with six arguments; the module's last definition
\* of that name (line 974) takes four, so the call raises TypeError, which the
\* except clause at line 450 turns into None.
generate_contextual_response(agent, topic, message_count) ==
    IF IsInterviewTopic(topic) THEN NoResponse
    ELSE generate_discussion_response(agent, topic, message_count)

\* a text given character by character
LiteralTpl == 20
Literal(chars) == Text(LiteralTpl, <<>>, chars)

\* the characters broadcast_typewriter_message iterates over: those of a literal
\* text, and TextLen characters, named by their positions, for a generated text
Chars(content) ==
    IF content.tpl = LiteralTpl THEN content.arg ELSE [i \in 1..TextLen |-> i]

\* variant of the typing event that carries the last character only
message_typing_char(m, l, id, chars, i) ==
    [Event("message_typing", m, l, id, i) EXCEPT !.text = <<chars[i]>>]

\* broadcast_typewriter_message, lines 762-771: the event sent after character i is
\* accumulated
message_typing(m, l, id, chars, i) ==
    [Event("message_typing", m, l, id, i) EXCEPT !.text = Take(chars, i)]

\* broadcast_typewriter_message, lines 777-786
message_complete(m, l, id, chars) ==
    [Event("message_complete", m, l, id, 0) EXCEPT !.text = chars]


(***************************************************************************)
(* State of one run_agent_conversation task.  gen, loaded, forced,         *)
(* superseded and ended are ghost fields: the log of generated turns, the  *)
(* contents loaded at loop start, whether the task was started with        *)
(* force_restart, whether a later force restart hit the task while it was  *)
(* live, whether it broadcast conversation_ended.                          *)
(***************************************************************************)
NoLoop ==
    [pc |-> "none", m |-> 0, agent_configs |-> <<>>, is_interview |-> FALSE,
     interviewers |-> <<>>, interviewees |-> <<>>, rounds |-> 0,
     speaking_interval |-> 0,
     existing_content |-> {}, message_count |-> 0, round_num |-> 0, turn |-> 0,
     cur |-> 0, pos |-> 0,
     gen |-> <<>>, loaded |-> {}, forced |-> FALSE, superseded |-> FALSE,
     ended |-> FALSE]

\* dropped is a ghost field: a put on the queue has raised and broadcast_to_meeting
\* has removed the queue
NoSub == [pc |-> "off", m |-> 0, seen |-> <<>>, replay |-> <<>>, waited |-> 0,
          dropped |-> FALSE]

\* a task that was scheduled and has not finished
Live(l) == loops[l].pc \notin {"none", "done"}

LiveLoopsOf(m) == {l \in LoopIds : Live(l) /\ loops[l].m = m}

(***************************************************************************)
(* Initial states of the streaming model: an empty messages table, no      *)
(* connection, no conversation; the tables hold one of the configurations. *)
(* A meeting's status is fixed: MeetingService.update_meeting_status and   *)
(* start_meeting raise AttributeError on MeetingStatus.ACTIVE, which the   *)
(* enum does not define, and roll the change back.                         *)
(***************************************************************************)
\* meeting_rules with the discussion_rounds key, and without it
ConfiguredRules == [discussion_rounds : RoundChoices]
DefaultRules == {[max_consecutive_turns |-> 2]}

\* duration_limit is the nullable column of models/meeting.py, in minutes; 0 is
\* None.  speaking_priority is the column of the meeting's meeting_participants
\* rows, in tenths (default 1.0).
MeetingRows(rules) ==
    [status : {"active", "draft"}, topic : Topics, meeting_rules : rules,
     participants : {<<>>, <<1, 2>>}, duration_limit : {0}, speaking_priority : {10}]

StreamInit(rules) ==
    /\ meeting_cfg \in [Meetings -> MeetingRows(rules)]
    /\ agents_config \in AgentTables
    /\ messages = <<>>
    /\ active_conversations = {}
    /\ connections = NoConnections
    /\ queue = [q \in QueueIds |-> <<>>]
    /\ sub = [q \in QueueIds |-> NoSub]
    /\ loops = [l \in LoopIds |-> NoLoop]
    /\ running = 0

(***************************************************************************)
(* POST /meetings/{meeting_id}/start-conversation.  The handler has no     *)
(* await that suspends (the queues are unbounded), so it is one step; the  *)
(* background task starts after the response, in a later step.             *)
(***************************************************************************)
\* variants of the duplicate-start check: one that never refuses a start, one that
\* refuses only forced starts
AlreadyInProgress_never(m, force_restart) == FALSE

AlreadyInProgress_inverted(m, force_restart) ==
    m \in active_conversations /\ force_restart

\* line 151: the duplicate-start check
AlreadyInProgress(m, force_restart) ==
    m \in active_conversations /\ ~force_restart

\* variant of the force restart that broadcasts nothing
ResetBroadcast_silent(m, force_restart, l) == queue

\* lines 155-162: a force restart clears the marker and broadcasts the reset
ResetBroadcast(m, force_restart, l) ==
    IF force_restart
    THEN broadcast_to_meeting(connections, queue, m,
                              Event("conversation_reset", m, l, 0, 0))
    ELSE queue

\* the next free task slot, 0 when the bound on tasks is reached
NextLoopId ==
    IF \E l \in LoopIds : loops[l].pc = "none"
    THEN CHOOSE l \in LoopIds : loops[l].pc = "none" /\ \A k \in LoopIds : k < l => loops[k].pc # "none"
    ELSE 0

\* lines 141-170: what the handler returns and the state it leaves
StartOutcome(m, force_restart) ==
    LET same == [active_conversations |-> active_conversations, queue |-> queue,
                 loops |-> loops]
    IN IF m \notin Meetings
       THEN [result |-> "404 Meeting not found"] @@ same
       ELSE IF meeting_cfg[m].status # "active"
       THEN [result |-> "400 Meeting must be active to start conversation"] @@ same
       ELSE IF AlreadyInProgress(m, force_restart)
       THEN [result |-> "Meeting conversation already in progress"] @@ same
       ELSE LET l == NextLoopId
            IN [result |-> "Meeting conversation started",
                active_conversations |-> active_conversations \cup {m},
                queue |-> ResetBroadcast(m, force_restart, l),
                loops |-> [k \in LoopIds |->
                             IF k = l
                             THEN [NoLoop EXCEPT !.pc = "scheduled", !.m = m,
                                                !.forced = force_restart]
                             ELSE IF force_restart /\ Live(k) /\ loops[k].m = m
                             THEN [loops[k] EXCEPT !.superseded = TRUE]
                             ELSE loops[k]]]

start_meeting_conversation(m, force_restart) ==
    /\ running = 0
    /\ LET out == StartOutcome(m, force_restart)
       IN /\ out.result = "Meeting conversation started" => NextLoopId # 0
          /\ active_conversations' = out.active_conversations
          /\ queue' = out.queue
          /\ loops' = out.loops
    /\ UNCHANGED <<meeting_cfg, agents_config, messages, connections, sub, running,
                   score_vars, roster_vars, sched_vars>>

(***************************************************************************)
(* run_agent_conversation, one action per stretch between two points where *)
(* the task can be suspended (asyncio.sleep) or where its control flow     *)
(* branches.  A task that holds `running` is the only one that steps.      *)
(***************************************************************************)
\* lines 203-213: the active participants, or the first three active agents
ParticipantsOrDefault(m) ==
    IF meeting_cfg[m].participants # <<>> THEN meeting_cfg[m].participants
    ELSE Take(SelectIdx(<<1, 2>>, {a \in AgentIds : agents_config[a].is_active}, 1), 3)

\* lines 216-220: the configurations of the participants that are active agents
ActiveAgentConfigs(parts) ==
    SelectIdx(parts, {i \in 1..Len(parts) : agents_config[parts[i]].is_active}, 1)

\* variant of the round count that runs one round per turn of max_rounds
NumRounds_unhalved(rules) ==
    IF "discussion_rounds" \in DOMAIN rules THEN rules.discussion_rounds * 2 ELSE 8

\* lines 232-235 and 272: the number of rounds, max_rounds // 2 (meeting_rules is a
\* dict; an empty one is falsy and has no key)
NumRounds(rules) ==
    LET max_rounds == IF "discussion_rounds" \in DOMAIN rules
                      THEN rules.discussion_rounds * 2
                      ELSE 8
    IN max_rounds \div 2

\* variant of the pacing interval without the clamp
speaking_interval_unclamped(rules) ==
    IF "speaking_time_limit" \in DOMAIN rules
    THEN rules.speaking_time_limit \div 30
    ELSE 4

\* lines 237-240: the seconds the task sleeps after a turn.  // is the floor
\* division, as \div is.
speaking_interval(rules) ==
    IF "speaking_time_limit" \in DOMAIN rules
    THEN Min(Max(rules.speaking_time_limit \div 30, 3), 8)
    ELSE 4

\* line 254: the persona is an interviewer by its role or its name
IsInterviewerAgent(a) ==
    \/ ContainsAny(Lower(agents_config[a].role), InterviewerKeywords)
    \/ ContainsAny(Lower(agents_config[a].name), InterviewerKeywords)

\* lines 251-263: the interviewers and the interviewees among the agent
\* configurations of an interview.  Every configuration lands in one of the two
\* lists, so the split by position of lines 260-263, which runs when both lists
\* are empty, runs only for an empty list of configurations.
InterviewPartition(cfgs) ==
    LET matched == SelectIdx(cfgs, {i \in 1..Len(cfgs) : IsInterviewerAgent(cfgs[i])}, 1)
        others == SelectIdx(cfgs, {i \in 1..Len(cfgs) : ~IsInterviewerAgent(cfgs[i])}, 1)
        mid == Len(cfgs) \div 2
    IN IF matched = <<>> /\ others = <<>>
       THEN [interviewers |-> IF mid > 0 THEN Take(cfgs, mid) ELSE Take(cfgs, 1),
             interviewees |-> IF mid < Len(cfgs) THEN SubSeq(cfgs, mid + 1, Len(cfgs))
                              ELSE <<>>]
       ELSE [interviewers |-> matched, interviewees |-> others]

\* lines 193-272: set-up, up to the first round
LoopStart(l) ==
    /\ running = 0
    /\ loops[l].pc = "scheduled"
    /\ LET m == loops[l].m
           parts == ParticipantsOrDefault(m)
           cfgs == ActiveAgentConfigs(parts)
           interview == IsInterviewTopic(meeting_cfg[m].topic)
           existing == get_meeting_messages(messages, m, ExistingLimit)
           content == {existing[i].content : i \in 1..Len(existing)}
       IN /\ meeting_cfg' = [meeting_cfg EXCEPT ![m].participants = parts]
          /\ IF cfgs = <<>>
             THEN loops' = [loops EXCEPT ![l].pc = "finally"]
             ELSE loops' = [loops EXCEPT
                    ![l].pc = "round_begin",
                    ![l].agent_configs = cfgs,
                    ![l].is_interview = interview,
                    ![l].interviewers =
                        IF interview THEN InterviewPartition(cfgs).interviewers ELSE <<>>,
                    ![l].interviewees =
                        IF interview THEN InterviewPartition(cfgs).interviewees ELSE <<>>,
                    ![l].rounds = NumRounds(meeting_cfg[m].meeting_rules),
                    ![l].speaking_interval = speaking_interval(meeting_cfg[m].meeting_rules),
                    ![l].existing_content = content,
                    ![l].loaded = content,
                    ![l].message_count = 0,
                    ![l].round_num = 0]
    /\ running' = l
    /\ UNCHANGED <<agents_config, messages, active_conversations, connections, queue,
                   sub, score_vars, roster_vars, sched_vars>>

\* line 272: the loop test; lines 274-279 or 361-365: the broadcast that follows
LoopRoundBegin(l) ==
    /\ running = l
    /\ loops[l].pc = "round_begin"
    /\ IF loops[l].round_num < loops[l].rounds
       THEN /\ queue' = broadcast_to_meeting(connections, queue, loops[l].m,
                            Event("round_started", loops[l].m, l, 0, loops[l].round_num + 1))
            /\ loops' = [loops EXCEPT ![l].pc = "turn", ![l].turn = 0]
       ELSE /\ queue' = broadcast_to_meeting(connections, queue, loops[l].m,
                            Event("conversation_ended", loops[l].m, l, 0, 0))
            /\ loops' = [loops EXCEPT ![l].pc = "finally", ![l].ended = TRUE]
    /\ UNCHANGED <<meeting_cfg, agents_config, messages, active_conversations,
                   connections, sub, running, score_vars, roster_vars, sched_vars>>

\* variant of the speakers of the round in which the interviewee speaks first
TurnAgents_answer_first(L) ==
    IF L.is_interview
    THEN IF L.interviewers # <<>> /\ L.interviewees # <<>>
         THEN <<L.interviewees[(L.round_num % Len(L.interviewees)) + 1],
                L.interviewers[(L.round_num % Len(L.interviewers)) + 1]>>
         ELSE <<>>
    ELSE Take(L.agent_configs, 2)

\* the speakers of the round: interviewer then interviewee (lines 283-285), or the
\* first two agents (line 328)
TurnAgents(L) ==
    IF L.is_interview
    THEN IF L.interviewers # <<>> /\ L.interviewees # <<>>
         THEN <<L.interviewers[(L.round_num % Len(L.interviewers)) + 1],
                L.interviewees[(L.round_num % Len(L.interviewees)) + 1]>>
         ELSE <<>>
    ELSE Take(L.agent_configs, 2)

\* the entry of the ghost log for the turn the loop is at: the text generated,
\* whether it was persisted, the speaker, the round and the place in the round
GenEntry(L, response, persisted) ==
    [content |-> response, persisted |-> persisted, agent |-> TurnAgents(L)[L.turn + 1],
     round |-> L.round_num, turn |-> L.turn]

\* variant of the turn filter without the duplicate test
KeepTurn_any(response, existing_content) == response # NoResponse

\* lines 299, 319, 342: the turn is kept when it is a response with unseen content
KeepTurn(response, existing_content) ==
    response # NoResponse /\ response \notin existing_content

\* variant of save_and_broadcast_message that starts the typewriter broadcast
\* whether or not the row was committed
save_and_broadcast_message_unsaved(l, m, a, response, commit_ok, Lok, Lraise) ==
    LET id == Len(messages) + 1
    IN /\ messages' = IF commit_ok
                      THEN Append(messages, [id |-> id, meeting |-> m, agent_id |-> a,
                                             content |-> response, loop |-> l])
                      ELSE messages
       /\ queue' = broadcast_to_meeting(connections, queue, m,
                                        Event("message_start", m, l, id, 0))
       /\ loops' = [loops EXCEPT ![l] = [Lok EXCEPT !.pc = "typing", !.cur = id,
                                                     !.pos = 0]]

\* save_and_broadcast_message, lines 384-415, up to the first suspension of the
\* typewriter broadcast: the row is added and committed, then message_start is
\* broadcast (lines 745-752); a commit that fails raises, and the exception is
\* logged and raised again.  Lok and Lraise are the caller's state after the call
\* has started the broadcast and after it has raised.
save_and_broadcast_message(l, m, a, response, commit_ok, Lok, Lraise) ==
    IF commit_ok
    THEN LET id == Len(messages) + 1
         IN /\ messages' = Append(messages, [id |-> id, meeting |-> m, agent_id |-> a,
                                             content |-> response, loop |-> l])
            /\ queue' = broadcast_to_meeting(connections, queue, m,
                                             Event("message_start", m, l, id, 0))
            /\ loops' = [loops EXCEPT ![l] = [Lok EXCEPT !.pc = "typing", !.cur = id,
                                                          !.pos = 0]]
    ELSE /\ loops' = [loops EXCEPT ![l] = Lraise]
         /\ UNCHANGED <<messages, queue>>

\* variant of the handling of a failed write in which the exception ends the loop
\* in every mode
OnCommitFailure_abort(L, response) ==
    [L EXCEPT !.pc = "finally",
              !.gen = Append(@, GenEntry(L, response, FALSE))]

\* the state of the loop after save_and_broadcast_message has raised.  In a
\* discussion the except clause of the turn (lines 350-352) goes on to the next
\* speaker; the interview branch (lines 282-325) has no handler of its own, so there
\* the exception reaches the except clause of the task (line 369)
OnCommitFailure(L, response) ==
    IF L.is_interview
    THEN [L EXCEPT !.pc = "finally",
                   !.gen = Append(@, GenEntry(L, response, FALSE))]
    ELSE [L EXCEPT !.turn = @ + 1,
                   !.gen = Append(@, GenEntry(L, response, FALSE))]

\* variant of the dropped turn that counts the turn as a message
DropTurn_counting(L, response) ==
    [L EXCEPT !.turn = @ + 1, !.message_count = @ + 1,
              !.gen = Append(@, GenEntry(L, response, FALSE))]

\* lines 299, 319, 342 when the test fails: nothing is stored, existing_content and
\* message_count stay as they are and the loop goes to the next speaker
DropTurn(L, response) ==
    [L EXCEPT !.turn = @ + 1, !.gen = Append(@, GenEntry(L, response, FALSE))]

\* lines 288-303 / 308-323 / 331-346: generate one turn, and either persist it and
\* start its typewriter broadcast or drop it.  commit_ok tells whether the commit
\* of the row succeeds.
LoopTurn(l, commit_ok) ==
    /\ running = l
    /\ loops[l].pc = "turn"
    /\ LET L == loops[l]
           speakers == TurnAgents(L)
       IN IF L.turn >= Len(speakers)
          THEN \* line 354: the sleep between rounds
               /\ loops' = [loops EXCEPT ![l].pc = "round_sleep"]
               /\ running' = 0
               /\ UNCHANGED <<messages, queue>>
          ELSE LET a == speakers[L.turn + 1]
                   response == generate_contextual_response(
                                   agents_config[a], meeting_cfg[L.m].topic, L.message_count)
               IN IF KeepTurn(response, L.existing_content)
                  THEN /\ save_and_broadcast_message(l, L.m, a, response, commit_ok,
                              [L EXCEPT !.gen = Append(@, GenEntry(L, response, TRUE))],
                              OnCommitFailure(L, response))
                       /\ running' = l
                  ELSE /\ loops' = [loops EXCEPT ![l] = DropTurn(L, response)]
                       /\ running' = l
                       /\ UNCHANGED <<messages, queue>>
    /\ UNCHANGED <<meeting_cfg, agents_config, active_conversations, connections, sub,
                   score_vars, roster_vars, sched_vars>>

\* broadcast_typewriter_message, lines 758-786: one character and its sleep, or the
\* message_complete event; then lines 303-305: the content is recorded, the count
\* grows and the task sleeps speaking_interval seconds
LoopTyping(l) ==
    /\ running = l
    /\ loops[l].pc = "typing"
    /\ LET L == loops[l]
           content == messages[L.cur].content
       IN IF L.pos < Len(Chars(content))
          THEN /\ queue' = broadcast_to_meeting(connections, queue, L.m,
                               message_typing(L.m, l, L.cur, Chars(content), L.pos + 1))
               /\ loops' = [loops EXCEPT ![l].pos = @ + 1, ![l].pc = "typing_sleep"]
          ELSE /\ queue' = broadcast_to_meeting(connections, queue, L.m,
                               message_complete(L.m, l, L.cur, Chars(content)))
               /\ loops' = [loops EXCEPT
                      ![l].existing_content = @ \cup {content},
                      ![l].message_count = @ + 1,
                      ![l].pc = "turn_sleep"]
    /\ running' = 0
    /\ UNCHANGED <<meeting_cfg, agents_config, messages, active_conversations,
                   connections, sub, score_vars, roster_vars, sched_vars>>

\* the task is resumed after a sleep: line 774 (typing), lines 305/325/348 (after a
\* turn), line 354 (after a round)
LoopWake(l) ==
    /\ running = 0
    /\ loops[l].pc \in {"typing_sleep", "turn_sleep", "round_sleep"}
    /\ loops' = [loops EXCEPT ![l] =
           CASE @.pc = "typing_sleep" -> [@ EXCEPT !.pc = "typing"]
             [] @.pc = "turn_sleep" -> [@ EXCEPT !.pc = "turn", !.turn = @ + 1, !.cur = 0,
                                                 !.pos = 0]
             [] OTHER -> [@ EXCEPT !.pc = "round_begin", !.round_num = @ + 1, !.turn = 0]]
    /\ running' = l
    /\ UNCHANGED <<meeting_cfg, agents_config, messages, active_conversations,
                   connections, queue, sub, score_vars, roster_vars, sched_vars>>

\* lines 371-373: the finally block
LoopFinally(l) ==
    /\ running = l
    /\ loops[l].pc = "finally"
    /\ active_conversations' = active_conversations \ {loops[l].m}
    /\ loops' = [loops EXCEPT ![l].pc = "done"]
    /\ running' = 0
    /\ UNCHANGED <<meeting_cfg, agents_config, messages, connections, queue, sub,
                   score_vars, roster_vars, sched_vars>>


(***************************************************************************)
(* GET /meetings/{meeting_id}/stream: event_generator.  Every yield hands  *)
(* one event to the client; `seen` is what the client has received.        *)
(***************************************************************************)
HEARTBEAT_TIMEOUT == 30     \* asyncio.wait_for(queue.get(), timeout=30.0)

Listening(q) == sub[q].pc = "listen"

\* lines 74-81: the queue is registered and `connected` is yielded
SubConnect(q, m) ==
    /\ running = 0
    /\ sub[q].pc = "off"
    /\ \A k \in QueueIds : k < q => sub[k].pc # "off"
    /\ connections' = add_connection(connections, m, q)
    /\ sub' = [sub EXCEPT ![q] = [NoSub EXCEPT !.pc = "connected", !.m = m,
                                               !.seen = <<Event("connected", m, 0, 0, 0)>>]]
    /\ UNCHANGED <<meeting_cfg, agents_config, messages, active_conversations, queue,
                   loops, running, score_vars, roster_vars, sched_vars>>

\* lines 84-98: the stored messages are read once and yielded one by one; after the
\* last one the generator waits on its queue (line 104)
SubReplay(q) ==
    /\ running = 0
    /\ sub[q].pc \in {"connected", "replay"}
    /\ LET todo == IF sub[q].pc = "connected"
                   THEN get_meeting_messages(messages, sub[q].m, ReplayLimit)
                   ELSE sub[q].replay
       IN IF todo = <<>>
          THEN sub' = [sub EXCEPT ![q].pc = "listen", ![q].replay = <<>>, ![q].waited = 0]
          ELSE sub' = [sub EXCEPT
                 ![q].seen = Append(@, Event("existing_message", sub[q].m, 0, Head(todo).id, 0)),
                 ![q].replay = Tail(todo),
                 ![q].pc = IF Tail(todo) = <<>> THEN "listen" ELSE "replay",
                 ![q].waited = 0]
    /\ UNCHANGED <<meeting_cfg, agents_config, messages, active_conversations,
                   connections, queue, loops, running, score_vars, roster_vars, sched_vars>>

\* lines 104-105: an event arrives before the timeout and is yielded
SubGet(q) ==
    /\ running = 0
    /\ Listening(q)
    /\ queue[q] # <<>>
    /\ sub' = [sub EXCEPT ![q].seen = Append(@, Head(queue[q])), ![q].waited = 0]
    /\ queue' = [queue EXCEPT ![q] = Tail(@)]
    /\ UNCHANGED <<meeting_cfg, agents_config, messages, active_conversations,
                   connections, loops, running, score_vars, roster_vars, sched_vars>>

\* variant of the timeout branch that leaves the loop, as the branch for other
\* exceptions does
OnTimeout_break(s) == [s EXCEPT !.pc = "closed", !.waited = 0]

\* what the generator does when wait_for times out (lines 106-108): it yields a
\* heartbeat and goes round the loop again
OnTimeout(s) ==
    [s EXCEPT !.seen = Append(@, Event("heartbeat", s.m, 0, 0, 0)), !.waited = 0]

\* the heartbeats the generator has yielded
Heartbeats(q) == {i \in 1..Len(sub[q].seen) : sub[q].seen[i].type = "heartbeat"}

\* lines 104, 106-108: queue.get() has waited the full timeout
SubTimeout(q) ==
    /\ running = 0
    /\ Listening(q)
    /\ queue[q] = <<>>
    /\ sub[q].waited >= HEARTBEAT_TIMEOUT
    /\ Cardinality(Heartbeats(q)) < MaxHeartbeats
    /\ sub' = [sub EXCEPT ![q] = OnTimeout(@)]
    /\ UNCHANGED <<meeting_cfg, agents_config, messages, active_conversations,
                   connections, queue, loops, running, score_vars, roster_vars, sched_vars>>

\* one second passes.  A queue.get() that can return does so at once and a wait
\* that has lasted the timeout ends at once, so time passes only while every
\* waiting generator has an empty queue and time left; `waited` is the whole
\* seconds a generator has spent in its current wait_for.
Tick ==
    /\ running = 0
    /\ \E q \in QueueIds : Listening(q)
    /\ \A q \in QueueIds :
          Listening(q) => queue[q] = <<>> /\ sub[q].waited < HEARTBEAT_TIMEOUT
    /\ sub' = [q \in QueueIds |->
                 IF Listening(q) THEN [sub[q] EXCEPT !.waited = @ + 1] ELSE sub[q]]
    /\ UNCHANGED <<meeting_cfg, agents_config, messages, active_conversations,
                   connections, queue, loops, running, score_vars, roster_vars, sched_vars>>

\* the conversation_paused events sent to a subscriber
Pauses(q) ==
    {i \in 1..(Len(sub[q].seen) + Len(queue[q])) :
        (sub[q].seen \o queue[q])[i].type = "conversation_paused"}

\* POST /meetings/{meeting_id}/pause-conversation (lines 172-187): the handler only
\* broadcasts conversation_paused
pause_meeting_conversation(m) ==
    /\ running = 0
    /\ \A q \in QueueIds : Cardinality(Pauses(q)) < MaxPauses
    /\ queue' = broadcast_to_meeting(connections, queue, m,
                                     Event("conversation_paused", m, 0, 0, 0))
    /\ UNCHANGED <<meeting_cfg, agents_config, messages, active_conversations,
                   connections, sub, loops, running, score_vars, roster_vars, sched_vars>>

\* the client goes away: the generator is closed and its finally block
\* (lines 115-117) removes the queue
SubDisconnect(q) ==
    /\ running = 0
    /\ sub[q].pc \in {"connected", "replay", "listen"}
    /\ connections' = remove_connection(connections, sub[q].m, q)
    /\ sub' = [sub EXCEPT ![q].pc = "closed", ![q].replay = <<>>, ![q].waited = 0]
    /\ UNCHANGED <<meeting_cfg, agents_config, messages, active_conversations, queue,
                   loops, running, score_vars, roster_vars, sched_vars>>

(***************************************************************************)
(* ConfigurableAgent.should_speak_now.  Scores are exact: a score is the   *)
(* integer number of 10^-7 units, priorities and factors are in tenths, so *)
(* every product of the function is an integer.                            *)
(***************************************************************************)
Scale == 10 ^ 7

\* base_score *= tenths / 10
Times(score, tenths) == (score * tenths) \div 10

\* dict.get(key, default)
Get(d, key, default) == IF key \in DOMAIN d THEN d[key] ELSE default

\* variant of the recent-speaker test that looks at the whole list
IsRecentSpeaker_anywhere(id, recent_speakers) == id \in Range(recent_speakers)

\* line 270: self.config.id in recent_speakers[-3:]
IsRecentSpeaker(id, recent_speakers) == id \in Range(LastN(recent_speakers, 3))

\* lines 275-279: the areas whose lower-cased name occurs in the lower-cased context
RelevantAreas(expertise_areas, current_context) ==
    Cardinality({i \in 1..Len(expertise_areas) :
                    LowerWord(expertise_areas[i]) \in Range(Lower(current_context))})

\* variant of the final clamp that returns the raw product
Clamp_raw(score) == score

\* line 289: min(1.0, max(0.0, base_score))
Clamp(score) == Min(Scale, Max(0, score))

\* lines 246-289.  participant_config is <<>> for None, else a one-element
\* sequence holding the participant row.
should_speak_now(agent, current_context, recent_speakers, meeting_rules) ==
    LET base == Scale \div 2
        prio == IF agent.participant_config # <<>>
                THEN Times(base, agent.participant_config[1].speaking_priority)
                ELSE base
        behavior == agent.config.behavior_settings
        frequency == Get(behavior, "speaking_frequency", "medium")
        freq == IF frequency = "high" THEN Times(prio, 13)
                ELSE IF frequency = "low" THEN Times(prio, 7)
                ELSE prio
        initiative == Get(behavior, "initiative_level", "medium")
        init == IF initiative = "high" THEN Times(freq, 12)
                ELSE IF initiative = "low" THEN Times(freq, 8)
                ELSE freq
        rec == IF IsRecentSpeaker(agent.config.id, recent_speakers) THEN Times(init, 6)
               ELSE init
        relevant_areas == IF agent.config.expertise_areas # <<>> /\ current_context # <<>>
                          THEN RelevantAreas(agent.config.expertise_areas, current_context)
                          ELSE 0
        exp == IF relevant_areas > 0 THEN Times(rec, 10 + relevant_areas * 2) ELSE rec
        max_consecutive == Get(meeting_rules, "max_consecutive_turns", 2)
        rules == IF agent.response_count > max_consecutive THEN Times(exp, 5) ELSE exp
    IN Clamp(rules)

\* ---- the inputs the function is evaluated on --------------------------
Levels == {"high", "low", "medium"}

\* behavior_settings: a dict that holds any of the two keys
BehaviorSettings ==
    UNION {[keys -> Levels] : keys \in SUBSET {"speaking_frequency", "initiative_level"}}

\* speaking_priority in tenths; <<>> is an agent without participant_config
Priorities == {-10, 0, 5, 10, 25}
ParticipantConfigs == {<<>>} \cup {<<[speaking_priority |-> p]>> : p \in Priorities}

ExpertiseChoices == {<<>>, <<"React">>, <<"react", "Risk", "budget">>}
Contexts == {<<>>, <<"plan">>, <<"REACT", "plan">>, <<"react", "risk", "Budget">>}

\* lists of agent ids of length at most n
SeqsUpTo(ids, n) == UNION {[1..k -> ids] : k \in 0..n}

RulesChoices == {[discussion_rounds |-> 1], [max_consecutive_turns |-> 1],
                 [max_consecutive_turns |-> 2]}

ConfigurableAgent(id, behavior, expertise, participant, count) ==
    [config |-> [id |-> id, behavior_settings |-> behavior, expertise_areas |-> expertise],
     participant_config |-> participant, response_count |-> count]

ScoreInputs ==
    [agent : {ConfigurableAgent(1, b, e, p, c) :
                 b \in BehaviorSettings, e \in ExpertiseChoices, p \in ParticipantConfigs,
                 c \in 0..MaxResponseCount},
     current_context : Contexts,
     recent_speakers : SeqsUpTo({1, 2}, MaxRecent),
     meeting_rules : RulesChoices]

\* a fresh agent with empty settings and no participant row, on empty inputs
NeutralInput ==
    [agent |-> ConfigurableAgent(1, <<>>, <<>>, <<>>, 0), current_context |-> <<>>,
     recent_speakers |-> <<>>, meeting_rules |-> [discussion_rounds |-> 1]]

\* score_out is -1 until the function has been evaluated
ScoreIdle ==
    /\ score_in = NeutralInput
    /\ score_out = -1

ScoreInit ==
    /\ score_in \in ScoreInputs
    /\ score_out = -1

Evaluate ==
    /\ score_out = -1
    /\ score_out' = should_speak_now(score_in.agent, score_in.current_context,
                                     score_in.recent_speakers, score_in.meeting_rules)
    /\ UNCHANGED <<score_in, stream_vars, roster_vars, sched_vars>>

(***************************************************************************)
(* MeetingAgentManager: the roster (a dict, so ids stay in insertion       *)
(* order) and calculate_next_speaker.                                      *)
(***************************************************************************)
RosterIds == 1..MaxRoster

\* the agents_config row and the meeting_participants row an id is added with
Persona(id) ==
    CASE id = 1 -> ConfigurableAgent(1, [speaking_frequency |-> "high",
                                         initiative_level |-> "high"],
                                     <<"React", "Risk">>, <<[speaking_priority |-> 10]>>, 0)
      [] id = 3 -> ConfigurableAgent(3, [speaking_frequency |-> "low"],
                                     <<"react", "Risk">>, <<[speaking_priority |-> 25]>>, 0)
      [] OTHER -> ConfigurableAgent(id, <<>>, <<>>, <<[speaking_priority |-> 10]>>, 0)

\* the contexts, the lists of recent speakers and the rules the manager is asked
\* with
CallContexts == {<<>>, <<"react", "risk", "Budget">>}
RecentChoices == {<<>>, <<1>>, <<3, 2>>, <<1, 2, 2, 2>>}
CallRules == {[discussion_rounds |-> 1], [max_consecutive_turns |-> 1]}

\* no call since the roster last changed
NoCall ==
    [done |-> FALSE, current_context |-> <<>>, recent_speakers |-> <<>>,
     meeting_rules |-> [discussion_rounds |-> 1], result |-> 0]

RosterIdle ==
    /\ agents = <<>>
    /\ agent_obj = [id \in {} |-> Persona(id)]
    /\ speaker_call = NoCall

\* lines 382-386: self.agents[agent_config.id] = ConfigurableAgent(...); a key that
\* is already there keeps its place
add_agent(id) ==
    /\ agents' = IF id \in Range(agents) THEN agents ELSE Append(agents, id)
    /\ agent_obj' = [k \in DOMAIN agent_obj \cup {id} |->
                       IF k = id THEN Persona(id) ELSE agent_obj[k]]
    /\ speaker_call' = NoCall
    /\ UNCHANGED <<stream_vars, score_vars, sched_vars>>

\* lines 388-396
remove_agent(id) ==
    /\ id \in Range(agents)
    /\ agents' = RemoveFirst(agents, id)
    /\ agent_obj' = [k \in DOMAIN agent_obj \ {id} |-> agent_obj[k]]
    /\ speaker_call' = NoCall
    /\ UNCHANGED <<stream_vars, score_vars, sched_vars>>

\* lines 160 and 222: a response of the agent is counted
generate_response(id) ==
    /\ id \in Range(agents)
    /\ agent_obj[id].response_count < MaxResponseCount
    /\ agent_obj' = [agent_obj EXCEPT ![id].response_count = @ + 1]
    /\ speaker_call' = NoCall
    /\ UNCHANGED <<agents, stream_vars, score_vars, sched_vars>>

\* variant of the selection that takes the first key
BestKey_first(keys, scores) == keys[1]

RECURSIVE BestFrom_last(_, _, _, _)
\* variant of max() in which an equal score also replaces `best`
BestFrom_last(keys, scores, i, best) ==
    IF i > Len(keys) THEN best
    ELSE BestFrom_last(keys, scores, i + 1,
                       IF scores[keys[i]] >= scores[best] THEN keys[i] ELSE best)

\* variant of the selection that keeps the last of the keys with the greatest score
BestKey_last(keys, scores) == BestFrom_last(keys, scores, 2, keys[1])

RECURSIVE BestFrom(_, _, _, _)
\* max() over keys[i..]: `best` is replaced only by a strictly greater score
BestFrom(keys, scores, i, best) ==
    IF i > Len(keys) THEN best
    ELSE BestFrom(keys, scores, i + 1,
                  IF scores[keys[i]] > scores[best] THEN keys[i] ELSE best)

\* line 423: max(speaker_scores.keys(), key=lambda k: speaker_scores[k])
BestKey(keys, scores) == BestFrom(keys, scores, 2, keys[1])

\* lines 416-419: speaker_scores
SpeakerScores(current_context, recent_speakers, meeting_rules) ==
    [id \in Range(agents) |->
        should_speak_now(agent_obj[id], current_context, recent_speakers, meeting_rules)]

\* lines 406-427: the id of the agent returned, 0 for None
NextSpeaker(current_context, recent_speakers, meeting_rules) ==
    IF agents = <<>> THEN 0
    ELSE BestKey(agents, SpeakerScores(current_context, recent_speakers, meeting_rules))

\* The call changes nothing in the manager, so only the first call on a roster is
\* recorded: a later one would be answered as from the state before it.
calculate_next_speaker(current_context, recent_speakers, meeting_rules) ==
    /\ ~speaker_call.done
    /\ speaker_call' = [done |-> TRUE, current_context |-> current_context,
                        recent_speakers |-> recent_speakers,
                        meeting_rules |-> meeting_rules,
                        result |-> NextSpeaker(current_context, recent_speakers,
                                               meeting_rules)]
    /\ UNCHANGED <<agents, agent_obj, stream_vars, score_vars, sched_vars>>

(***************************************************************************)
(* MeetingSpeakingScheduler (one process-wide instance, get_meeting_       *)
(* scheduler) and the /schedule endpoints of meetings.py.  A state dict is *)
(* an object: a task keeps the dict it fetched even after initialize_      *)
(* meeting has put a new one in active_meetings, so the dicts live in      *)
(* meeting_state and active_meetings holds the number of the current one   *)
(* (0: no entry).  Handlers suspend only while the generator is awaited    *)
(* and in asyncio.sleep.  Meetings have a duration_limit only under        *)
(* SpecSchedulerClock.                                                     *)
(***************************************************************************)
MaxStarts == 1          \* schedule/start requests that initialize a meeting
MaxForces == 1          \* force-speak requests
MaxControls == 2        \* pause, resume and stop requests
MaxMinutes == 1         \* minutes the clock runs after a session's start_time

StateIds == 1..MaxStarts
CycleIds == 1..MaxStarts
ForceIds == 1..MaxForces

MaxIterations == 100        \* run_meeting_cycle(meeting_id, max_iterations=100)
DefaultMaxMessages == 1000  \* meeting_rules.get("max_messages", 1000)
MinScore == Scale \div 10   \* if score < 0.1

\* elapsed stands for start_time: the whole minutes of datetime.utcnow() - start_time.
\* stored is a ghost field: the ids of the rows that turns on this dict have stored.
NoState ==
    [meeting |-> 0, participants |-> <<>>, current_round |-> 0, current_speaker |-> 0,
     last_speakers |-> <<>>, message_count |-> 0, is_active |-> FALSE,
     pause_requested |-> FALSE, elapsed |-> 0, stored |-> <<>>]

\* flagged, paused, resumed and attempts are ghost fields: pause or stop was
\* requested while the task's turn was with the generator; pause was requested
\* while the task's loop was running; resume was requested after such a pause; the
\* number of turns the loop has handed to process_speaking_turn; the score of the
\* speaker the loop selected last (-1: none yet)
NoCycle ==
    [pc |-> "none", m |-> 0, state |-> 0, iteration_count |-> 0, agent |-> 0, ver |-> 0,
     turn_state |-> 0, flagged |-> FALSE, paused |-> FALSE, resumed |-> FALSE,
     success |-> FALSE, attempts |-> 0, score |-> -1]

\* status is the HTTP status of the response, 0 while the request is being served;
\* had_entry, paused and msg are ghost fields: whether the meeting had a state dict
\* and whether it was paused when the request came, and the row the request stored
NoForce ==
    [pc |-> "none", m |-> 0, agent |-> 0, ver |-> 0, turn_state |-> 0, status |-> 0,
     had_entry |-> FALSE, paused |-> FALSE, msg |-> 0]

WsEvent(type, m, agent, content, success) ==
    [type |-> type, meeting |-> m, agent |-> agent, content |-> content,
     success |-> success]

\* the scheduler before any request; fids are the force-speak requests to come
SchedIdleOver(fids) ==
    /\ active_meetings = [m \in Meetings |-> 0]
    /\ meeting_state = [s \in StateIds |-> NoState]
    /\ cycles = [c \in CycleIds |-> NoCycle]
    /\ forces = [f \in fids |-> NoForce]
    /\ ws_sent = {}
    /\ agent_ver = [id \in RosterIds |-> 0]
    /\ controls = 0
    /\ start_status = [m \in MeetingIds |-> 0]

SchedIdle == SchedIdleOver(ForceIds)

\* the dict now registered for m
Registered(m) == meeting_state[active_meetings[m]]

\* initialize_meeting, lines 45-63: the agent built from the agents_config row
\* and the participant row of meeting m
MeetingPersona(m, id) ==
    [Persona(id) EXCEPT !.participant_config =
        <<[speaking_priority |-> meeting_cfg[m].speaking_priority]>>]

RECURSIVE AddAll(_, _)
\* initialize_meeting, lines 56-63: the keys of agent_manager.agents after every
\* participant whose agents_config row exists has been added
AddAll(keys, parts) ==
    IF parts = <<>> THEN keys
    ELSE AddAll(IF Head(parts) \in AgentIds /\ Head(parts) \notin Range(keys)
                THEN Append(keys, Head(parts)) ELSE keys,
                Tail(parts))

\* no task is between a failed turn and the head of its loop: the `continue` at
\* line 265 reaches the loop head without an await, so no handler runs in between
EventLoopFree == \A c \in DOMAIN cycles : cycles[c].pc # "retry"

\* variant of the test that lets a meeting without participants be initialized
initialize_meeting_ok_any(m) == m \in DOMAIN meeting_cfg

\* initialize_meeting, lines 37-51: the meeting has a row and participants
initialize_meeting_ok(m) == m \in DOMAIN meeting_cfg /\ meeting_cfg[m].participants # <<>>

\* POST /meetings/{meeting_id}/schedule/start.  When initialize_meeting returns
\* False the handler raises HTTPException(400) inside its own try block, whose
\* except clause answers 500 (lines 528-546), and nothing else happens; otherwise
\* the roster gets a new ConfigurableAgent for every participant,
\* active_meetings[m] a new dict, and the task is scheduled.
start_intelligent_scheduling(m) ==
    IF ~initialize_meeting_ok(m)
    THEN /\ EventLoopFree
         /\ start_status' = [start_status EXCEPT ![m] = 500]
         /\ UNCHANGED <<stream_vars, score_vars, roster_vars, active_meetings, meeting_state,
                        cycles, forces, ws_sent, agent_ver, controls>>
    ELSE /\ EventLoopFree
         /\ \E s \in DOMAIN meeting_state :
               /\ meeting_state[s] = NoState
               /\ \A k \in DOMAIN meeting_state : k < s => meeting_state[k] # NoState
               /\ LET parts == meeting_cfg[m].participants
                      added == Range(parts) \cap AgentIds
                  IN /\ agents' = AddAll(agents, parts)
                     /\ agent_obj' = [k \in DOMAIN agent_obj \cup added |->
                                        IF k \in added THEN MeetingPersona(m, k) ELSE agent_obj[k]]
                     /\ agent_ver' = [k \in RosterIds |->
                                        IF k \in added THEN agent_ver[k] + 1 ELSE agent_ver[k]]
                     /\ meeting_state' = [meeting_state EXCEPT ![s] =
                             [NoState EXCEPT !.meeting = m, !.participants = parts,
                                             !.is_active = TRUE]]
                     /\ active_meetings' = [active_meetings EXCEPT ![m] = s]
                     /\ cycles' = [cycles EXCEPT ![s] =
                                     [NoCycle EXCEPT !.pc = "scheduled", !.m = m]]
                     /\ ws_sent' = ws_sent \cup
                                     {WsEvent("scheduling_started", m, 0, NoResponse, TRUE)}
         /\ start_status' = [start_status EXCEPT ![m] = 200]
         /\ speaker_call' = NoCall
         /\ UNCHANGED <<stream_vars, score_vars, forces, controls>>

\* the tasks and requests whose turn for m is with the generator
AwaitingCycles(m) == {c \in DOMAIN cycles : cycles[c].pc = "awaiting" /\ cycles[c].m = m}
AwaitingForces(m) == {f \in ForceIds : forces[f].pc = "awaiting" /\ forces[f].m = m}

\* the tasks of m whose loop has started and has not returned
RunningCycles(m) ==
    {c \in DOMAIN cycles : cycles[c].m = m /\ cycles[c].pc \in {"awaiting", "sleeping", "spinning"}}

\* ghost: the scheduled turns a pause or stop request finds with the generator, the
\* tasks a pause request finds running, the paused tasks a resume request finds
Flag(m, pause) ==
    [c \in DOMAIN cycles |->
        [cycles[c] EXCEPT !.flagged = @ \/ c \in AwaitingCycles(m),
                          !.paused = @ \/ (pause /\ c \in RunningCycles(m))]]

Unflag(m) ==
    [c \in DOMAIN cycles |-> [cycles[c] EXCEPT !.resumed = @ \/ (cycles[c].m = m /\ cycles[c].paused)]]

\* POST schedule/pause: pause_meeting, lines 284-290, then the broadcast.  A
\* meeting without an entry gets 404 and nothing changes.
pause_meeting(m) ==
    /\ EventLoopFree
    /\ controls < MaxControls
    /\ active_meetings[m] # 0
    /\ meeting_state' = [meeting_state EXCEPT ![active_meetings[m]].pause_requested = TRUE]
    /\ ws_sent' = ws_sent \cup {WsEvent("meeting_paused", m, 0, NoResponse, TRUE)}
    /\ cycles' = Flag(m, TRUE)
    /\ controls' = controls + 1
    /\ UNCHANGED <<stream_vars, score_vars, roster_vars, active_meetings, forces, agent_ver,
                   start_status>>

\* POST schedule/resume: resume_meeting, lines 292-298
resume_meeting(m) ==
    /\ EventLoopFree
    /\ controls < MaxControls
    /\ active_meetings[m] # 0
    /\ meeting_state' = [meeting_state EXCEPT ![active_meetings[m]].pause_requested = FALSE]
    /\ ws_sent' = ws_sent \cup {WsEvent("meeting_resumed", m, 0, NoResponse, TRUE)}
    /\ cycles' = Unflag(m)
    /\ controls' = controls + 1
    /\ UNCHANGED <<stream_vars, score_vars, roster_vars, active_meetings, forces, agent_ver,
                   start_status>>

\* POST schedule/stop: stop_meeting, lines 300-306
stop_meeting(m) ==
    /\ EventLoopFree
    /\ controls < MaxControls
    /\ active_meetings[m] # 0
    /\ meeting_state' = [meeting_state EXCEPT ![active_meetings[m]].is_active = FALSE]
    /\ ws_sent' = ws_sent \cup {WsEvent("meeting_stopped", m, 0, NoResponse, TRUE)}
    /\ cycles' = Flag(m, FALSE)
    /\ controls' = controls + 1
    /\ UNCHANGED <<stream_vars, score_vars, roster_vars, active_meetings, forces, agent_ver,
                   start_status>>

\* _get_recent_messages, lines 404-412, reads msg.agent_name and msg.content, which
\* MeetingMessage (models/message.py) does not define: as soon as the meeting has a
\* row, _build_current_context raises AttributeError
ContextRaises(m) == \E i \in 1..Len(messages) : messages[i].meeting = m

\* _build_current_context, lines 364-377, when it returns: the topic lines
build_current_context(m) == meeting_cfg[m].topic

\* variant of the rules that does not look at the clock
should_continue_meeting_untimed(m) ==
    IF active_meetings[m] = 0 THEN FALSE
    ELSE LET rules == meeting_cfg[m].meeting_rules
             max_rounds == Get(rules, "discussion_rounds", 0)
         IN /\ ~(max_rounds # 0 /\ Registered(m).current_round >= max_rounds)
            /\ Registered(m).message_count < Get(rules, "max_messages", DefaultMaxMessages)

\* _should_continue_meeting, lines 327-351
should_continue_meeting(m) ==
    IF active_meetings[m] = 0 THEN FALSE
    ELSE LET rules == meeting_cfg[m].meeting_rules
             duration_limit == meeting_cfg[m].duration_limit
             max_rounds == Get(rules, "discussion_rounds", 0)
         IN /\ ~(duration_limit # 0 /\ Registered(m).elapsed >= duration_limit)
            /\ ~(max_rounds # 0 /\ Registered(m).current_round >= max_rounds)
            /\ Registered(m).message_count < Get(rules, "max_messages", DefaultMaxMessages)

\* get_next_speaker, lines 96-131: None, an exception, or the agent and its score
get_next_speaker(m) ==
    IF ~should_continue_meeting(m) THEN [kind |-> "none", agent |-> 0, score |-> 0]
    ELSE IF ContextRaises(m) THEN [kind |-> "raise", agent |-> 0, score |-> 0]
    ELSE LET ctx == build_current_context(m)
             recent == LastN(Registered(m).last_speakers, 5)
             rules == meeting_cfg[m].meeting_rules
             a == NextSpeaker(ctx, recent, rules)
         IN IF a = 0 THEN [kind |-> "none", agent |-> 0, score |-> 0]
            ELSE [kind |-> "agent", agent |-> a,
                  score |-> should_speak_now(agent_obj[a], ctx, recent, rules)]

\* what the generator call comes back with: a reply of the language model, or the
\* fallback text of deepseek_service.generate_agent_response, which names the agent
ReplyKinds == {"reply", "fallback"}
GeneratorReply(a, kind) ==
    IF kind = "reply" THEN Text(10, <<>>, <<"reply">>)
    ELSE Text(11, <<>>, agents_config[a].name)

\* variant of the turn that drops the reply when the meeting was paused or stopped
\* while the generator was awaited
TurnCancelled_preemptive(S, force_speak) ==
    (S.pause_requested \/ ~S.is_active) /\ ~force_speak

\* process_speaking_turn, lines 170-186: no flag is read between the reply and the
\* commit
TurnCancelled(S, force_speak) == FALSE

\* variant of the window that keeps every speaker
TrimWindow_keep(last_speakers) == last_speakers

\* process_speaking_turn, lines 192-193: last_speakers[-10:] once the list is longer
\* than 10
TrimWindow(last_speakers) ==
    IF Len(last_speakers) > 10 THEN LastN(last_speakers, 10) ELSE last_speakers

\* process_speaking_turn, lines 176-200, on the dict R the turn fetched at line 154:
\* the row is stored, the speaker and the message are counted, and current_round
\* grows when _should_summarize_round (which reads the registered dict) says so.
\* The agent object the turn holds counted its response at line 160; the roster
\* sees that when it still holds the same object.
TurnDone(R, a, ver, content, force_speak) ==
    LET m == meeting_state[R].meeting
        counted == [meeting_state EXCEPT ![R] =
                       [@ EXCEPT !.last_speakers = TrimWindow(Append(@, a)),
                                 !.message_count = @ + 1,
                                 !.current_speaker = 0,
                                 !.stored = Append(@, Len(messages) + 1)]]
        reg == counted[active_meetings[m]]
        summarize == reg.message_count % Max(Len(reg.participants), 5) = 0
    IN /\ agent_obj' = IF a \in DOMAIN agent_obj /\ agent_ver[a] = ver
                       THEN [agent_obj EXCEPT ![a].response_count = @ + 1]
                       ELSE agent_obj
       /\ IF TurnCancelled(meeting_state[R], force_speak)
          THEN /\ messages' = messages
               /\ meeting_state' = meeting_state
          ELSE /\ messages' = Append(messages,
                      [id |-> Len(messages) + 1, meeting |-> m, agent_id |-> a,
                       content |-> content, loop |-> 0])
               /\ meeting_state' = IF summarize
                                   THEN [counted EXCEPT ![R].current_round = @ + 1]
                                   ELSE counted

\* the response the turn's agent object can still count
CanCount(a, ver) ==
    (a \in DOMAIN agent_obj /\ agent_ver[a] = ver) =>
        agent_obj[a].response_count < MaxResponseCount

\* variant of the threshold test that lets every score through
LowConfidence_never(score) == FALSE

\* run_meeting_cycle, line 257: if score < 0.1
LowConfidence(score) == score < MinScore

\* run_meeting_with_broadcasting and run_meeting_cycle, lines 228-278: the task
\* starts (fetching the registered dict) or wakes from its sleep and runs the loop
\* up to the generator call of the next turn, or to its return and the
\* meeting_cycle_completed broadcast.  A turn refused at line 157 makes the loop
\* `continue` without any await: the task spins.  After a turn that failed the loop
\* is at its head again (pc "retry").
run_meeting_cycle(c) ==
    /\ cycles[c].pc \in {"scheduled", "sleeping", "retry"}
    /\ LET C == cycles[c]
           m == C.m
           st == IF C.pc = "scheduled" THEN active_meetings[m] ELSE C.state
           S == meeting_state[st]
           nxt == get_next_speaker(m)
           break == \/ ~(C.iteration_count < MaxIterations /\ S.is_active)
                    \/ S.pause_requested
                    \/ ~should_continue_meeting(m)
           out == IF break THEN "true"
                  ELSE IF nxt.kind = "raise" THEN "false"
                  ELSE IF nxt.kind = "none" \/ LowConfidence(nxt.score) THEN "true"
                  ELSE IF Registered(m).pause_requested THEN "spin"
                  ELSE "turn"
           score == IF ~break /\ nxt.kind = "agent" THEN nxt.score ELSE C.score
       IN CASE out = "turn" ->
                 /\ cycles' = [cycles EXCEPT ![c] =
                        [@ EXCEPT !.pc = "awaiting", !.state = st, !.agent = nxt.agent,
                                  !.attempts = @ + 1, !.score = score,
                                  !.ver = agent_ver[nxt.agent],
                                  !.turn_state = active_meetings[m]]]
                 /\ meeting_state' = [meeting_state EXCEPT
                        ![active_meetings[m]].current_speaker = nxt.agent]
                 /\ UNCHANGED ws_sent
            [] out = "spin" ->
                 /\ cycles' = [cycles EXCEPT ![c].pc = "spinning", ![c].state = st,
                                             ![c].score = score]
                 /\ UNCHANGED <<meeting_state, ws_sent>>
            [] OTHER ->
                 /\ cycles' = [cycles EXCEPT ![c].pc = "done", ![c].state = st,
                                             ![c].score = score,
                                             ![c].success = (out = "true")]
                 /\ ws_sent' = ws_sent \cup {WsEvent("meeting_cycle_completed", m, 0,
                                                       NoResponse, out = "true")}
                 /\ UNCHANGED meeting_state
    /\ UNCHANGED <<stream_vars, score_vars, roster_vars, active_meetings, forces, agent_ver,
                   controls, start_status>>

\* run_meeting_cycle, lines 262-265: the task after process_speaking_turn has
\* returned None: the loop continues, the iteration is not counted and the task
\* does not sleep
FailedTurn(C) == [C EXCEPT !.pc = "retry"]

\* the generator answers a scheduled turn: process_speaking_turn lines 170-210,
\* then run_meeting_cycle lines 264-271 (the iteration is counted, the task sleeps).
\* commit_ok tells whether the commit of the row succeeds; when it raises, the
\* except clause (lines 211-215) clears current_speaker on the dict the turn
\* fetched and returns None.  The agent object has counted its response at line
\* 160 of generate_response either way.
TurnReturns(c, kind, commit_ok) ==
    /\ EventLoopFree
    /\ cycles[c].pc = "awaiting"
    /\ IF commit_ok
       THEN /\ TurnDone(cycles[c].turn_state, cycles[c].agent, cycles[c].ver,
                        GeneratorReply(cycles[c].agent, kind), FALSE)
            /\ cycles' = [cycles EXCEPT
                   ![c].pc = "sleeping",
                   ![c].iteration_count =
                       IF TurnCancelled(meeting_state[cycles[c].turn_state], FALSE)
                       THEN @ ELSE @ + 1]
       ELSE /\ agent_obj' = IF /\ cycles[c].agent \in DOMAIN agent_obj
                               /\ agent_ver[cycles[c].agent] = cycles[c].ver
                            THEN [agent_obj EXCEPT ![cycles[c].agent].response_count = @ + 1]
                            ELSE agent_obj
            /\ meeting_state' = [meeting_state EXCEPT
                   ![cycles[c].turn_state].current_speaker = 0]
            /\ cycles' = [cycles EXCEPT ![c] = FailedTurn(@)]
            /\ UNCHANGED messages
    /\ speaker_call' = NoCall
    /\ UNCHANGED <<meeting_cfg, agents_config, active_conversations, connections, queue, sub,
                   loops, running, score_vars, agents, active_meetings, forces, ws_sent,
                   agent_ver, controls, start_status>>

\* the scheduled turn, while the agent object can still count its response
process_speaking_turn(c, kind, commit_ok) ==
    /\ CanCount(cycles[c].agent, cycles[c].ver)
    /\ TurnReturns(c, kind, commit_ok)

\* POST schedule/force-speak, lines 706-714 and process_speaking_turn lines 150-170:
\* 404 for an agent that is not in the roster, 500 when the turn is refused or
\* raises, else the generator is called
force_agent_speak(f, m, agent_id) ==
    /\ EventLoopFree
    /\ forces[f].pc = "none"
    /\ \A k \in ForceIds : k < f => forces[k].pc # "none"
    /\ LET entry == m \in DOMAIN active_meetings /\ active_meetings[m] # 0
           req == [NoForce EXCEPT !.m = m, !.agent = agent_id, !.had_entry = entry,
                                  !.paused = entry /\ Registered(m).pause_requested]
       IN IF agent_id \notin Range(agents)
          THEN /\ forces' = [forces EXCEPT ![f] = [req EXCEPT !.pc = "done", !.status = 404]]
               /\ UNCHANGED meeting_state
          ELSE IF ~entry
          THEN /\ forces' = [forces EXCEPT ![f] = [req EXCEPT !.pc = "done", !.status = 500]]
               /\ UNCHANGED meeting_state
          ELSE IF ContextRaises(m)
          THEN /\ forces' = [forces EXCEPT ![f] = [req EXCEPT !.pc = "done", !.status = 500]]
               /\ meeting_state' = [meeting_state EXCEPT
                      ![active_meetings[m]].current_speaker = 0]
          ELSE /\ forces' = [forces EXCEPT ![f] =
                      [req EXCEPT !.pc = "awaiting", !.ver = agent_ver[agent_id],
                                  !.turn_state = active_meetings[m]]]
               /\ meeting_state' = [meeting_state EXCEPT
                      ![active_meetings[m]].current_speaker = agent_id]
    /\ UNCHANGED <<stream_vars, score_vars, roster_vars, active_meetings, cycles, ws_sent,
                   agent_ver, controls, start_status>>

\* the generator answers a forced turn: process_speaking_turn lines 170-210, then
\* force_agent_speak lines 716-729 (the new_message broadcast and the response)
ForcedTurnReturns(f, kind) ==
    /\ EventLoopFree
    /\ forces[f].pc = "awaiting"
    /\ TurnDone(forces[f].turn_state, forces[f].agent, forces[f].ver,
                GeneratorReply(forces[f].agent, kind), TRUE)
    /\ forces' = [forces EXCEPT ![f].pc = "done", ![f].status = 200,
                                ![f].msg = Len(messages) + 1]
    /\ ws_sent' = ws_sent \cup {WsEvent("new_message", forces[f].m, forces[f].agent,
                                            GeneratorReply(forces[f].agent, kind), TRUE)}
    /\ speaker_call' = NoCall
    /\ UNCHANGED <<meeting_cfg, agents_config, active_conversations, connections, queue, sub,
                   loops, running, score_vars, agents, active_meetings, cycles, agent_ver,
                   controls, start_status>>

\* the forced turn, while the agent object can still count its response
force_agent_speak_done(f, kind) ==
    /\ CanCount(forces[f].agent, forces[f].ver)
    /\ ForcedTurnReturns(f, kind)

\* the scheduler and its endpoints
SchedulerNext ==
    \/ \E m \in MeetingIds : start_intelligent_scheduling(m)
    \/ \E m \in Meetings : pause_meeting(m)
    \/ \E m \in Meetings : resume_meeting(m)
    \/ \E m \in Meetings : stop_meeting(m)
    \/ \E c \in CycleIds : run_meeting_cycle(c)
    \/ \E c \in CycleIds, kind \in ReplyKinds : process_speaking_turn(c, kind, TRUE)
    \/ \E f \in ForceIds, m \in Meetings, id \in AgentIds : force_agent_speak(f, m, id)
    \/ \E f \in ForceIds, kind \in ReplyKinds : force_agent_speak_done(f, kind)

\* a meeting with participants 1 and 2 (or none); its table of messages is empty or
\* holds one row of an earlier conversation
SchedulerRows ==
    {r \in MeetingRows(ConfiguredRules) : r.status = "active" /\ r.topic = <<"budget", "plan">>}

SchedulerInitOver(rows, fids) ==
    /\ meeting_cfg \in [Meetings -> rows]
    /\ agents_config \in {t \in AgentTables : t[1].name = <<"alice">>}
    /\ messages \in {<<>>} \cup
                    {<<[id |-> 1, meeting |-> m, agent_id |-> 1,
                        content |-> Text(1, <<>>, agents_config[1].role), loop |-> 0]>> :
                       m \in Meetings}
    /\ active_conversations = {}
    /\ connections = NoConnections
    /\ queue = [q \in QueueIds |-> <<>>]
    /\ sub = [q \in QueueIds |-> NoSub]
    /\ loops = [l \in LoopIds |-> NoLoop]
    /\ running = 0
    /\ ScoreIdle
    /\ RosterIdle
    /\ SchedIdleOver(fids)

SchedulerInitWith(rows) == SchedulerInitOver(rows, ForceIds)

SchedulerInit == SchedulerInitWith(SchedulerRows)

SpecScheduler == SchedulerInit /\ [][SchedulerNext]_vars

\* the scheduler with a clock: meetings may have a duration_limit and a
\* max_messages rule, and minutes pass
LimitRules ==
    {[discussion_rounds |-> r, max_messages |-> n] :
        r \in RoundChoices, n \in {1, DefaultMaxMessages}}

ClockRows ==
    {[r EXCEPT !.meeting_rules = ru, !.duration_limit = d] :
        r \in SchedulerRows, ru \in LimitRules, d \in 0..MaxMinutes}

\* datetime.utcnow() as read at line 337: a minute has passed for every session
minute_passes ==
    /\ \E s \in StateIds : meeting_state[s] # NoState /\ meeting_state[s].elapsed < MaxMinutes
    /\ meeting_state' = [s \in StateIds |->
                            IF meeting_state[s] # NoState /\ meeting_state[s].elapsed < MaxMinutes
                            THEN [meeting_state[s] EXCEPT !.elapsed = @ + 1]
                            ELSE meeting_state[s]]
    /\ UNCHANGED <<stream_vars, score_vars, roster_vars, active_meetings, cycles, forces,
                   ws_sent, agent_ver, controls, start_status>>

SchedulerClockNext ==
    \/ SchedulerNext
    \/ minute_passes

\* the recent-speaker window under many forced turns.  A turn can be stored only
\* when it was requested before the meeting had a row, so the forced turns that
\* fill the window are all in flight together; the generator answers them in the
\* order they were asked, while the scheduled turn comes back at any time.
MaxWindowForces == 11   \* force-speak requests in flight
WindowForceIds == 1..MaxWindowForces

WindowRows == {r \in SchedulerRows : r.participants # <<>> /\ r.meeting_rules.discussion_rounds = 0}

WindowInit == SchedulerInitOver(WindowRows, WindowForceIds)

\* the agents request f may name: any for the first two, then alternating
WindowAgents(f) == IF f <= 2 THEN AgentIds ELSE {2 - (f % 2)}

\* a force-speak request that arrives during the session of m
window_force_agent_speak(f, m, id) ==
    /\ active_meetings[m] # 0
    /\ id \in WindowAgents(f)
    /\ \A k \in WindowForceIds : k < f => forces[k].pc # "none"
    /\ force_agent_speak(f, m, id)

window_force_agent_speak_done(f) ==
    /\ \A k \in WindowForceIds : k < f => forces[k].pc # "awaiting"
    /\ ForcedTurnReturns(f, "reply")

WindowNext ==
    \/ \E m \in Meetings : start_intelligent_scheduling(m)
    \/ \E c \in CycleIds : run_meeting_cycle(c)
    \/ \E c \in CycleIds : TurnReturns(c, "reply", TRUE)
    \/ \E f \in WindowForceIds, m \in Meetings, id \in AgentIds :
          window_force_agent_speak(f, m, id)
    \/ \E f \in WindowForceIds : window_force_agent_speak_done(f)

SpecWindow == WindowInit /\ [][WindowNext]_vars

\* the scheduler over meetings whose participants have a low or the default
\* speaking_priority
PriorityRows ==
    {[r EXCEPT !.speaking_priority = p] : r \in SchedulerRows, p \in {1, 2, 10}}

SchedulerPriorityInit == SchedulerInitWith(PriorityRows)

SpecSchedulerPriority == SchedulerPriorityInit /\ [][SchedulerNext]_vars

SchedulerClockInit == SchedulerInitWith(ClockRows)

SpecSchedulerClock == SchedulerClockInit /\ [][SchedulerClockNext]_vars

\* the scheduler over a storage whose commits may fail in scheduled turns
SchedulerStorageNext ==
    \/ \E m \in MeetingIds : start_intelligent_scheduling(m)
    \/ \E m \in Meetings : pause_meeting(m)
    \/ \E m \in Meetings : resume_meeting(m)
    \/ \E m \in Meetings : stop_meeting(m)
    \/ \E c \in CycleIds : run_meeting_cycle(c)
    \/ \E c \in CycleIds, kind \in ReplyKinds, commit_ok \in BOOLEAN :
          process_speaking_turn(c, kind, commit_ok)
    \/ \E f \in ForceIds, m \in Meetings, id \in AgentIds : force_agent_speak(f, m, id)
    \/ \E f \in ForceIds, kind \in ReplyKinds : force_agent_speak_done(f, kind)

SpecSchedulerStorage == SchedulerInit /\ [][SchedulerStorageNext]_vars


(***************************************************************************)
(* The streaming model.                                                    *)
(***************************************************************************)
Init ==
    /\ StreamInit(ConfiguredRules)
    /\ ScoreIdle
    /\ RosterIdle
    /\ SchedIdle

\* the start handler and the conversation tasks
Next ==
    \/ \E m \in MeetingIds, f \in BOOLEAN : start_meeting_conversation(m, f)
    \/ \E l \in LoopIds : LoopStart(l)
    \/ \E l \in LoopIds : LoopRoundBegin(l)
    \/ \E l \in LoopIds : LoopTurn(l, TRUE)
    \/ \E l \in LoopIds : LoopTyping(l)
    \/ \E l \in LoopIds : LoopWake(l)
    \/ \E l \in LoopIds : LoopFinally(l)

Spec == Init /\ [][Next]_vars

\* the same machine for meetings whose rules carry no discussion_rounds: the
\* conversation runs the default eight turns
DefaultRoundsInit ==
    /\ StreamInit(DefaultRules)
    /\ ScoreIdle
    /\ RosterIdle
    /\ SchedIdle

SpecDefaultRounds == DefaultRoundsInit /\ [][Next]_vars

\* the same machine for meetings with a speaking_time_limit rule: every limit up
\* to MaxLimit seconds in absolute value, a very large one, and none
MaxLimit == 270
LargeLimit == 1000000000
PacingLimits == ((0 - MaxLimit)..MaxLimit) \cup {0 - LargeLimit, LargeLimit}

PacingRules ==
    {[discussion_rounds |-> 1]} \cup
    {[discussion_rounds |-> 1, speaking_time_limit |-> t] : t \in PacingLimits}

PacingInit ==
    /\ StreamInit(PacingRules)
    /\ \A m \in Meetings : /\ meeting_cfg[m].status = "active"
                           /\ meeting_cfg[m].topic = <<"budget", "plan">>
                           /\ meeting_cfg[m].participants = <<1, 2>>
    /\ ~agents_config[2].is_active
    /\ ScoreIdle
    /\ RosterIdle
    /\ SchedIdle

SpecPacing == PacingInit /\ [][Next]_vars

\* the machine with the first queue already registered for a meeting and its
\* event_generator waiting on it (line 104); the client stays connected
SubscribedInit ==
    /\ meeting_cfg \in [Meetings -> MeetingRows(ConfiguredRules)]
    /\ agents_config \in AgentTables
    /\ messages = <<>>
    /\ active_conversations = {}
    /\ \E m \in Meetings :
          /\ connections = add_connection(NoConnections, m, 1)
          /\ sub = [q \in QueueIds |->
                      IF q = 1
                      THEN [NoSub EXCEPT !.pc = "listen", !.m = m,
                                         !.seen = <<Event("connected", m, 0, 0, 0)>>]
                      ELSE NoSub]
    /\ queue = [q \in QueueIds |-> <<>>]
    /\ loops = [l \in LoopIds |-> NoLoop]
    /\ running = 0
    /\ ScoreIdle
    /\ RosterIdle
    /\ SchedIdle

SubscribedNext ==
    \/ Next
    \/ \E q \in QueueIds : SubGet(q)

SpecSubscribed == SubscribedInit /\ [][SubscribedNext]_vars

\* the conversation of a meeting with one subscriber, and pause requests
PausedNext ==
    \/ Next
    \/ \E m \in Meetings : pause_meeting_conversation(m)

SpecPaused == SubscribedInit /\ [][PausedNext]_vars

\* the conversation of a meeting with one subscriber over a storage whose commits
\* may fail
StorageNext ==
    \/ \E m \in MeetingIds, f \in BOOLEAN : start_meeting_conversation(m, f)
    \/ \E l \in LoopIds : LoopStart(l)
    \/ \E l \in LoopIds : LoopRoundBegin(l)
    \/ \E l \in LoopIds, commit_ok \in BOOLEAN : LoopTurn(l, commit_ok)
    \/ \E l \in LoopIds : LoopTyping(l)
    \/ \E l \in LoopIds : LoopWake(l)
    \/ \E l \in LoopIds : LoopFinally(l)
    \/ \E q \in QueueIds : SubGet(q)

SpecStorage == SubscribedInit /\ [][StorageNext]_vars

\* a server on which no conversation is started: clients connect, wait for events
\* and leave while time passes and pause requests come in.  The tables play no
\* part, so one configuration stands for all.
HeartbeatInit ==
    /\ Init
    /\ \A m \in Meetings : meeting_cfg[m].status = "active"
                           /\ meeting_cfg[m].topic = <<"budget", "plan">>
                           /\ meeting_cfg[m].meeting_rules.discussion_rounds = 0
                           /\ meeting_cfg[m].participants = <<>>
    /\ \A a \in AgentIds : agents_config[a].is_active /\ agents_config[a].role = <<"engineer">>

HeartbeatNext ==
    \/ \E q \in QueueIds, m \in Meetings : SubConnect(q, m)
    \/ \E q \in QueueIds : SubReplay(q)
    \/ \E q \in QueueIds : SubGet(q)
    \/ \E q \in QueueIds : SubTimeout(q)
    \/ \E q \in QueueIds : SubDisconnect(q)
    \/ \E m \in Meetings : pause_meeting_conversation(m)
    \/ Tick

SpecHeartbeat == HeartbeatInit /\ [][HeartbeatNext]_vars

\* the keys of SSEConnectionManager.connections in the fan-out machine: the meeting
\* of the conversation and a second meeting, which has subscribers and pause
\* requests only
Rooms == Meetings \cup {2}

\* two meetings with the same row and no stored message; one persona is active,
\* so a conversation is one message; no client is connected
FanoutInit ==
    /\ meeting_cfg = [m \in Rooms |->
                        [status |-> "active", topic |-> <<"budget", "plan">>,
                         meeting_rules |-> [discussion_rounds |-> 1],
                         participants |-> <<1, 2>>, duration_limit |-> 0,
                         speaking_priority |-> 10]]
    /\ agents_config \in {t \in AgentTables : ~t[2].is_active}
    /\ messages = <<>>
    /\ active_conversations = {}
    /\ connections = NoConnections
    /\ queue = [q \in QueueIds |-> <<>>]
    /\ sub = [q \in QueueIds |-> NoSub]
    /\ loops = [l \in LoopIds |-> NoLoop]
    /\ running = 0
    /\ ScoreIdle
    /\ RosterIdle
    /\ SchedIdle

\* clients connect to either meeting, read and leave while a conversation of the
\* first meeting publishes its events and pause requests reach both meetings
FanoutNext ==
    \/ \E m \in Meetings : start_meeting_conversation(m, FALSE)
    \/ \E l \in LoopIds : LoopStart(l)
    \/ \E l \in LoopIds : LoopRoundBegin(l)
    \/ \E l \in LoopIds : LoopTurn(l, TRUE)
    \/ \E l \in LoopIds : LoopTyping(l)
    \/ \E l \in LoopIds : LoopWake(l)
    \/ \E l \in LoopIds : LoopFinally(l)
    \/ \E q \in QueueIds, m \in Rooms : SubConnect(q, m)
    \/ \E q \in QueueIds : SubReplay(q)
    \/ \E q \in QueueIds : SubGet(q)
    \/ \E q \in QueueIds : SubDisconnect(q)
    \/ \E m \in Rooms : pause_meeting_conversation(m)

SpecFanout == FanoutInit /\ [][FanoutNext]_vars

\* POST /meetings/{meeting_id}/pause-conversation when the puts on the queues of
\* `failed` raise inside broadcast_to_meeting: the handler still returns its answer
pause_with_put_failures(m, failed) ==
    /\ running = 0
    /\ \A q \in QueueIds : Cardinality(Pauses(q)) < MaxPauses
    /\ LET r == broadcast(connections, queue, m,
                          Event("conversation_paused", m, 0, 0, 0), failed)
       IN /\ queue' = r.queue
          /\ connections' = r.connections
    /\ sub' = [q \in QueueIds |->
                 IF q \in failed \cap Range(QueuesOf(connections, m))
                 THEN [sub[q] EXCEPT !.dropped = TRUE]
                 ELSE sub[q]]
    /\ UNCHANGED <<meeting_cfg, agents_config, messages, active_conversations,
                   loops, running, score_vars, roster_vars, sched_vars>>

\* clients of two meetings connect, read and leave while pause requests are
\* broadcast to queues whose puts may raise
SendFailureNext ==
    \/ \E q \in QueueIds, m \in Rooms : SubConnect(q, m)
    \/ \E q \in QueueIds : SubReplay(q)
    \/ \E q \in QueueIds : SubGet(q)
    \/ \E q \in QueueIds : SubDisconnect(q)
    \/ \E m \in Rooms, failed \in SUBSET QueueIds : pause_with_put_failures(m, failed)

SpecSendFailure == FanoutInit /\ [][SendFailureNext]_vars

\* the texts save_and_broadcast_message is called with in the typewriter machine
Alphabet == {"a", "b"}
TypewriterContents == {Literal(c) : c \in SeqsUpTo(Alphabet, MaxChars)}

\* a caller other than the conversation loop: task l calls
\* save_and_broadcast_message for meeting m and agent a with a literal text
TypewriterCall(l, m, a, content) ==
    /\ running = 0
    /\ loops[l].pc = "none"
    /\ \A k \in LoopIds : k < l => loops[k].pc # "none"
    /\ save_and_broadcast_message(l, m, a, content, TRUE, [NoLoop EXCEPT !.m = m], NoLoop)
    /\ running' = l
    /\ UNCHANGED <<meeting_cfg, agents_config, active_conversations, connections, sub,
                   score_vars, roster_vars, sched_vars>>

\* line 774: a task is resumed after the pacing sleep of the typewriter
TypewriterWake(l) ==
    /\ loops[l].pc = "typing_sleep"
    /\ LoopWake(l)

\* the typewriter broadcasts of up to MaxLoops messages, which may overlap, with one
\* client connected from the start; the callers do not go on after the broadcast
TypewriterNext ==
    \/ \E l \in LoopIds, m \in Meetings, a \in AgentIds, c \in TypewriterContents :
          TypewriterCall(l, m, a, c)
    \/ \E l \in LoopIds : LoopTyping(l)
    \/ \E l \in LoopIds : TypewriterWake(l)
    \/ \E q \in QueueIds : SubGet(q)

TypewriterInit ==
    /\ SubscribedInit
    /\ \A m \in Meetings : /\ meeting_cfg[m].status = "active"
                           /\ meeting_cfg[m].topic = <<"budget", "plan">>
                           /\ meeting_cfg[m].meeting_rules.discussion_rounds = 1
                           /\ meeting_cfg[m].participants = <<1, 2>>
    /\ agents_config[1].name = <<"alice">>

SpecTypewriter == TypewriterInit /\ [][TypewriterNext]_vars

\* should_speak_now on its own: every input, then the evaluation
ScoreSpecInit ==
    /\ StreamInit(ConfiguredRules)
    /\ \A m \in Meetings : meeting_cfg[m] = [status |-> "draft", topic |-> <<"budget", "plan">>,
                                             meeting_rules |-> [discussion_rounds |-> 0],
                                             participants |-> <<>>, duration_limit |-> 0,
                                             speaking_priority |-> 10]
    /\ \A a \in AgentIds : agents_config[a].is_active /\ agents_config[a].role = <<"engineer">>
    /\ ScoreInit
    /\ RosterIdle
    /\ SchedIdle

SpecScore == ScoreSpecInit /\ [][Evaluate]_vars

\* a MeetingAgentManager on its own
RosterNext ==
    \/ \E id \in RosterIds : add_agent(id)
    \/ \E id \in RosterIds : remove_agent(id)
    \/ \E id \in RosterIds : generate_response(id)
    \/ \E c \in CallContexts, r \in RecentChoices, mr \in CallRules :
          calculate_next_speaker(c, r, mr)

RosterSpecInit ==
    /\ StreamInit(ConfiguredRules)
    /\ \A m \in Meetings : meeting_cfg[m] = [status |-> "draft", topic |-> <<"budget", "plan">>,
                                             meeting_rules |-> [discussion_rounds |-> 0],
                                             participants |-> <<>>, duration_limit |-> 0,
                                             speaking_priority |-> 10]
    /\ \A a \in AgentIds : agents_config[a].is_active /\ agents_config[a].role = <<"engineer">>
    /\ ScoreIdle
    /\ RosterIdle
    /\ SchedIdle

SpecRoster == RosterSpecInit /\ [][RosterNext]_vars

(***************************************************************************)
(* Properties of the start handler and the conversation loop.              *)
(***************************************************************************)
\* the rows of the messages table written by task l
MessagesOf(l) == SelectIdx(messages, {i \in 1..Len(messages) : messages[i].loop = l}, 1)

\* what a subscriber has been sent: the events it yielded, then those still queued
Stream(q) == sub[q].seen \o queue[q]

NoForcedStart == \A l \in LoopIds : ~loops[l].forced

\* C1: as long as every conversation was started without force_restart, a meeting
\* never has more than one run_agent_conversation task scheduled or running.
C1_SingleActiveSession ==
    NoForcedStart => \A m \in Meetings : Cardinality(LiveLoopsOf(m)) <= 1

\* a second conversation of a meeting is live after its first one finished
C1_Witness ==
    /\ NoForcedStart
    /\ \E l1, l2 \in LoopIds :
          /\ loops[l1].pc = "done"
          /\ Live(l2)
          /\ loops[l2].m = loops[l1].m
          /\ loops[l2].pc \notin {"scheduled", "finally"}

C3_OldLoopDiscarded ==
    [][\A l \in LoopIds :
          loops[l].superseded =>
              /\ loops'[l].gen = loops[l].gen
              /\ MessagesOf(l)' = MessagesOf(l)]_vars

\* C4: every subscriber of the meeting is sent the conversation_reset of a forced
\* start, and is sent it before any round_started of the task that start schedules.
C4_ResetBeforeRound ==
    /\ \A l \in LoopIds :
          loops[l].forced =>
              \A q \in Range(QueuesOf(connections, loops[l].m)) :
                  \E i \in 1..Len(Stream(q)) :
                      Stream(q)[i].type = "conversation_reset" /\ Stream(q)[i].loop = l
    /\ \A q \in QueueIds :
          \A j \in 1..Len(Stream(q)) :
              (Stream(q)[j].type = "round_started" /\ loops[Stream(q)[j].loop].forced) =>
                  \E i \in 1..(j - 1) :
                      /\ Stream(q)[i].type = "conversation_reset"
                      /\ Stream(q)[i].loop = Stream(q)[j].loop

\* a subscriber has yielded the round_started of a task started with force_restart
C4_Witness ==
    \E q \in QueueIds :
        \E j \in 1..Len(sub[q].seen) :
            /\ sub[q].seen[j].type = "round_started"
            /\ loops[sub[q].seen[j].loop].forced

\* the turns a task generated and persisted
PersistedTurns(l) == {i \in 1..Len(loops[l].gen) : loops[l].gen[i].persisted}

\* C5: a task of a meeting with discussion_rounds = N persists (and so broadcasts)
\* at most 2N messages, and none once it has broadcast conversation_ended.
C5_TerminationBound ==
    /\ [](\A l \in LoopIds :
             (Live(l) \/ loops[l].pc = "done") =>
                 LET rules == meeting_cfg[loops[l].m].meeting_rules
                 IN "discussion_rounds" \in DOMAIN rules =>
                        /\ Len(MessagesOf(l)) <= 2 * rules.discussion_rounds
                        /\ Cardinality(PersistedTurns(l)) = Len(MessagesOf(l)))
    /\ [][\A l \in LoopIds :
             loops[l].ended => MessagesOf(l)' = MessagesOf(l) /\ loops'[l].gen = loops[l].gen]_vars

\* a task has persisted two messages in a meeting of one round and has ended
C5_Witness ==
    \E l \in LoopIds :
        /\ loops[l].ended
        /\ "discussion_rounds" \in DOMAIN meeting_cfg[loops[l].m].meeting_rules
        /\ meeting_cfg[loops[l].m].meeting_rules.discussion_rounds >= 1
        /\ Len(MessagesOf(l)) = 2 * meeting_cfg[loops[l].m].meeting_rules.discussion_rounds

\* the contents task l had persisted before its i-th generated turn
PersistedBefore(l, i) ==
    {loops[l].gen[j].content : j \in {k \in 1..(i - 1) : loops[l].gen[k].persisted}}

\* C6: a generated turn whose text equals a message loaded at loop start, or one
\* the task persisted before, is not persisted (and so not broadcast); the messages
\* of one task are pairwise different and different from the loaded ones.
C6_Dedup ==
    \A l \in LoopIds :
        LET L == loops[l]
            mine == MessagesOf(l)
        IN /\ \A i \in 1..Len(L.gen) :
                 L.gen[i].content \in (L.loaded \cup PersistedBefore(l, i)) =>
                     ~L.gen[i].persisted
           /\ \A i \in 1..Len(mine) :
                 /\ mine[i].content \notin L.loaded
                 /\ \A j \in 1..Len(mine) : i # j => mine[i].content # mine[j].content

\* a task dropped a turn equal to a message it had persisted itself, and dropped
\* the next turn, which had the same text
C6_Witness ==
    \E l \in LoopIds :
        \E i \in 2..Len(loops[l].gen) :
            /\ loops[l].loaded = {}
            /\ loops[l].gen[i].content # NoResponse
            /\ loops[l].gen[i].content \in PersistedBefore(l, i)
            /\ loops[l].gen[i - 1].content = loops[l].gen[i].content
            /\ ~loops[l].gen[i].persisted
            /\ ~loops[l].gen[i - 1].persisted

(***************************************************************************)
(* Properties of the subscriber's consuming loop.                          *)
(***************************************************************************)
\* the generator has waited 30 seconds on an empty queue
TimeoutDue(q) == Listening(q) /\ queue[q] = <<>> /\ sub[q].waited = 30

\* C7: a generator whose queue stays empty never waits a 31st second: when 30
\* seconds have passed since its last yield, the next thing it does is yield a
\* heartbeat, after which it is still registered and waiting on its queue (unless
\* the client disconnects).
C7_Heartbeat ==
    /\ [](\A q \in QueueIds : Listening(q) => sub[q].waited <= 30)
    /\ [][\A q \in QueueIds :
             (TimeoutDue(q) /\ sub'[q] # sub[q]) =>
                 \/ /\ sub'[q] = [sub[q] EXCEPT
                                    !.seen = Append(@, Event("heartbeat", sub[q].m, 0, 0, 0)),
                                    !.waited = 0]
                    /\ sub'[q].pc = "listen"
                    /\ q \in Range(QueuesOf(connections', sub[q].m))
                 \/ /\ sub'[q].pc = "closed"
                    /\ q \notin Range(QueuesOf(connections', sub[q].m))
                    /\ sub'[q].seen = sub[q].seen]_vars

\* a generator has yielded two heartbeats and, 30 seconds after the second one,
\* is still waiting on its queue
C7_Witness ==
    \E q \in QueueIds :
        /\ TimeoutDue(q)
        /\ Cardinality(Heartbeats(q)) = 2
        /\ sub[q].seen[Len(sub[q].seen)].type = "heartbeat"

(***************************************************************************)
(* Properties of should_speak_now and calculate_next_speaker.              *)
(***************************************************************************)
Evaluated == score_out # -1

\* C8: whatever the persona, the participant priority, the recent speakers, the
\* context and the response count, the score lies between 0 and 1.
C8_ScoreBounds == Evaluated => (0 <= score_out /\ score_out <= Scale)

\* a priority of 2.5 with high frequency and initiative gives a product of 1.95,
\* returned as 1
C8_Witness ==
    /\ Evaluated
    /\ score_in.agent.participant_config = <<[speaking_priority |-> 25]>>
    /\ score_in.agent.config.behavior_settings =
           [speaking_frequency |-> "high", initiative_level |-> "high"]
    /\ score_in.recent_speakers = <<>>
    /\ score_in.current_context = <<>>
    /\ score_in.agent.response_count = 0
    /\ score_out = Scale

\* the factors of the score as the formula states them, in tenths
PriorityFactor(agent) ==
    IF agent.participant_config = <<>> THEN 10
    ELSE agent.participant_config[1].speaking_priority

FrequencyFactor(agent) ==
    LET b == agent.config.behavior_settings
    IN IF "speaking_frequency" \notin DOMAIN b THEN 10
       ELSE CASE b.speaking_frequency = "high" -> 13
              [] b.speaking_frequency = "low" -> 7
              [] OTHER -> 10

InitiativeFactor(agent) ==
    LET b == agent.config.behavior_settings
    IN IF "initiative_level" \notin DOMAIN b THEN 10
       ELSE CASE b.initiative_level = "high" -> 12
              [] b.initiative_level = "low" -> 8
              [] OTHER -> 10

RecentFactor(agent, recent_speakers) ==
    IF \E i \in 1..Len(recent_speakers) :
           i > Len(recent_speakers) - 3 /\ recent_speakers[i] = agent.config.id
    THEN 6 ELSE 10

ExpertiseFactor(agent, current_context) ==
    LET areas == agent.config.expertise_areas
        k == Cardinality({i \in 1..Len(areas) :
                             \E j \in 1..Len(current_context) :
                                 LowerWord(areas[i]) = LowerWord(current_context[j])})
    IN 10 + 2 * k

OverSpeakingFactor(agent, meeting_rules) ==
    LET limit == IF "max_consecutive_turns" \in DOMAIN meeting_rules
                 THEN meeting_rules.max_consecutive_turns ELSE 2
    IN IF agent.response_count > limit THEN 5 ELSE 10

\* 0.5 times the six factors, in units of 10^-7, clamped to [0, 1]
FormulaScore(in) ==
    LET raw == 5 * PriorityFactor(in.agent) * FrequencyFactor(in.agent)
                 * InitiativeFactor(in.agent)
                 * RecentFactor(in.agent, in.recent_speakers)
                 * ExpertiseFactor(in.agent, in.current_context)
                 * OverSpeakingFactor(in.agent, in.meeting_rules)
    IN IF raw < 0 THEN 0 ELSE IF raw > Scale THEN Scale ELSE raw

\* the neutral persona: no settings, priority 1.0 or none, first responses, no
\* relevant expertise
Neutral(in) ==
    /\ PriorityFactor(in.agent) = 10
    /\ FrequencyFactor(in.agent) = 10
    /\ InitiativeFactor(in.agent) = 10
    /\ ExpertiseFactor(in.agent, in.current_context) = 10
    /\ OverSpeakingFactor(in.agent, in.meeting_rules) = 10

\* C9: the score is the clamped product 0.5 x priority x frequency factor x
\* initiative factor x recent-speaker factor x expertise factor x over-speaking
\* factor; the neutral persona scores 0.5, 0.30 as a recent speaker, and the
\* high/high persona 0.78.
C9_ScoreFormula ==
    Evaluated =>
        /\ score_out = FormulaScore(score_in)
        /\ (Neutral(score_in) /\ RecentFactor(score_in.agent, score_in.recent_speakers) = 10)
               => score_out * 10 = 5 * Scale
        /\ (Neutral(score_in) /\ RecentFactor(score_in.agent, score_in.recent_speakers) = 6)
               => score_out * 100 = 30 * Scale
        /\ (/\ PriorityFactor(score_in.agent) = 10
            /\ FrequencyFactor(score_in.agent) = 13
            /\ InitiativeFactor(score_in.agent) = 12
            /\ RecentFactor(score_in.agent, score_in.recent_speakers) = 10
            /\ ExpertiseFactor(score_in.agent, score_in.current_context) = 10
            /\ OverSpeakingFactor(score_in.agent, score_in.meeting_rules) = 10)
               => score_out * 100 = 78 * Scale

\* an agent that spoke four turns ago but not in the last three, with its three
\* areas in the context and more responses than the rules allow: every factor but
\* the recent-speaker one applies, 0.5 x 0.5 x 0.7 x 0.8 x 1.6 x 0.5 = 0.112
C9_Witness ==
    /\ Evaluated
    /\ score_in.recent_speakers = <<1, 2, 2, 2>>
    /\ score_in.agent.participant_config = <<[speaking_priority |-> 5]>>
    /\ score_in.agent.config.behavior_settings =
           [speaking_frequency |-> "low", initiative_level |-> "low"]
    /\ score_in.agent.config.expertise_areas = <<"react", "Risk", "budget">>
    /\ score_in.current_context = <<"react", "risk", "Budget">>
    /\ score_in.agent.response_count = 2
    /\ score_in.meeting_rules = [max_consecutive_turns |-> 1]
    /\ score_out * 1000 = 112 * Scale

\* the score an agent of the roster gets in the recorded call
CallScore(id) ==
    should_speak_now(agent_obj[id], speaker_call.current_context,
                     speaker_call.recent_speakers, speaker_call.meeting_rules)

\* C10: calculate_next_speaker returns an agent of the roster whose score no other
\* agent of the roster exceeds, and returns None exactly when the roster is empty.
C10_MaxScore ==
    speaker_call.done =>
        /\ speaker_call.result = 0 <=> agents = <<>>
        /\ speaker_call.result # 0 =>
               /\ speaker_call.result \in Range(agents)
               /\ \A id \in Range(agents) : CallScore(speaker_call.result) >= CallScore(id)

\* three agents with three different scores, and the one returned is not the first
\* of the roster
C10_Witness ==
    /\ speaker_call.done
    /\ Len(agents) = 3
    /\ speaker_call.result # agents[1]
    /\ \A i, j \in Range(agents) : i # j => CallScore(i) # CallScore(j)

\* the place of an agent in the roster's insertion order
RosterPos(id) == CHOOSE i \in 1..Len(agents) : agents[i] = id

\* the agents of the roster that share the score of the agent returned
TiedWithResult == {id \in Range(agents) : CallScore(id) = CallScore(speaker_call.result)}

\* C11 (as claimed): when several agents of the roster compute the same maximum
\* score, calculate_next_speaker returns the one with the lowest persona id,
\* whatever the order in which they were added.
C11_TieLowestId ==
    (speaker_call.done /\ speaker_call.result # 0) =>
        \A id \in TiedWithResult : speaker_call.result <= id

\* C11 (amended): when several agents of the roster compute the same maximum
\* score, calculate_next_speaker returns the one that was added to the roster
\* first.
C11_TieFirstAdded ==
    (speaker_call.done /\ speaker_call.result # 0) =>
        \A id \in TiedWithResult : RosterPos(speaker_call.result) <= RosterPos(id)

\* two agents tie on the maximum score and the one returned, added first, does not
\* have the lowest id
C11_Witness ==
    /\ speaker_call.done
    /\ speaker_call.result # 0
    /\ \E id \in TiedWithResult : id < speaker_call.result
    /\ agents[1] = speaker_call.result

(***************************************************************************)
(* Properties of the scheduler and its control operations.                 *)
(***************************************************************************)
\* C12: for any interleaving of run_meeting_cycle with pause, resume, stop and
\* force_agent_speak on a meeting, at most one generation request of that meeting
\* is in flight.
C12_OneRequestInFlight ==
    \A m \in Meetings : Cardinality(AwaitingCycles(m)) + Cardinality(AwaitingForces(m)) <= 1

\* C13: a scheduled turn that is with the generator when pause or stop is requested
\* runs to completion (its row is stored, its speaker is appended to last_speakers
\* and message_count grows by one), and the task starts no other scheduled turn
\* afterwards.
C13_CooperativeCancel ==
    [][\A c \in CycleIds :
          /\ (cycles[c].pc = "awaiting" /\ cycles[c].flagged /\ cycles'[c].pc # "awaiting") =>
                LET R == cycles[c].turn_state
                    n == Len(messages')
                IN /\ n = Len(messages) + 1
                   /\ messages'[n].meeting = cycles[c].m
                   /\ messages'[n].agent_id = cycles[c].agent
                   /\ meeting_state'[R].message_count = meeting_state[R].message_count + 1
                   /\ meeting_state'[R].last_speakers # <<>>
                   /\ meeting_state'[R].last_speakers[Len(meeting_state'[R].last_speakers)]
                          = cycles[c].agent
          /\ (cycles[c].flagged /\ cycles[c].pc # "awaiting") => cycles'[c].pc # "awaiting"
      ]_vars

\* a pause or stop request came while the turn was with the generator; the turn was
\* stored and counted and the task has returned
C13_Witness ==
    \E c \in CycleIds :
        /\ cycles[c].flagged
        /\ cycles[c].pc = "done"
        /\ cycles[c].success
        /\ meeting_state[cycles[c].state].message_count = 1
        /\ \E i \in 1..Len(messages) : messages[i].agent_id = cycles[c].agent
                                        /\ messages[i].meeting = cycles[c].m

\* C14: after pause_meeting_conversation has broadcast conversation_paused, the
\* run_agent_conversation loop of the meeting starts no new turn: no message_start
\* of a loop that was running before the conversation_paused event follows it.
C14_PauseHaltsStream ==
    \A q \in QueueIds :
        \A h, i, j \in 1..Len(Stream(q)) :
            (/\ h < i
             /\ i < j
             /\ Stream(q)[h].type = "round_started"
             /\ Stream(q)[i].type = "conversation_paused")
                => ~(Stream(q)[j].type = "message_start"
                     /\ Stream(q)[j].loop = Stream(q)[h].loop)

\* one of the rules that end the loop of m applies: the meeting is stopped, a limit
\* of _should_continue_meeting is reached, the roster is empty or the best score is
\* below 0.1
TerminationRuleApplies(m) ==
    \/ active_meetings[m] = 0
    \/ ~Registered(m).is_active
    \/ ~should_continue_meeting(m)
    \/ agents = <<>>
    \/ LET ctx == build_current_context(m)
           recent == LastN(Registered(m).last_speakers, 5)
           rules == meeting_cfg[m].meeting_rules
       IN should_speak_now(agent_obj[NextSpeaker(ctx, recent, rules)], ctx, recent, rules)
              < MinScore

\* C15: after pause_meeting followed by resume_meeting on a session whose loop was
\* running, the session is running again: unless a termination rule applies, its
\* loop has not returned (a loop that an exception ended is left aside).
C15_ResumeRunsAgain ==
    \A c \in CycleIds :
        (/\ cycles[c].paused
         /\ cycles[c].resumed
         /\ ~Registered(cycles[c].m).pause_requested
         /\ ~TerminationRuleApplies(cycles[c].m))
            => ~(cycles[c].pc = "done" /\ cycles[c].success)

\* C16: force_agent_speak on a meeting with a session entry and an agent of the
\* roster runs one turn for that agent, paused or not: the request is not refused,
\* and when it is answered one row with that speaker has been stored; for an agent
\* that is not in the roster nothing is stored.
C16_ForceSpeakRunsTurn ==
    \A f \in ForceIds :
        /\ (forces[f].had_entry /\ forces[f].status # 404) =>
               /\ forces[f].status # 500
               /\ forces[f].pc = "done" =>
                      /\ forces[f].msg \in 1..Len(messages)
                      /\ messages[forces[f].msg].agent_id = forces[f].agent
        /\ forces[f].status = 404 => forces[f].msg = 0

\* C17: a forced turn whose text equals a row already stored for the meeting is not
\* stored.
C17_ForceSpeakDedupe ==
    \A f \in ForceIds :
        forces[f].msg # 0 =>
            \A i \in 1..(forces[f].msg - 1) :
                messages[i].meeting = forces[f].m
                    => messages[i].content # messages[forces[f].msg].content

\* the events of a subscriber's stream that went through its queue
QueueEvents(q) ==
    SelectIdx(Stream(q),
              {i \in 1..Len(Stream(q)) :
                  Stream(q)[i].type \notin {"connected", "existing_message", "heartbeat"}},
              1)

IsSuffix(s, t) == Len(s) <= Len(t) /\ s = SubSeq(t, Len(t) - Len(s) + 1, Len(t))

\* a step that publishes one event of meeting m: the event is appended once to every
\* queue registered for m and no other queue changes
PublishStep(m) ==
    /\ connections[m] # <<>>
    /\ \A q \in Range(connections[m]) : queue'[q] # <<>>
    /\ \E e \in {queue'[q][Len(queue'[q])] : q \in Range(connections[m])} :
          /\ e.meeting = m
          /\ queue' = [q \in QueueIds |->
                         IF q \in Range(connections[m]) THEN Append(queue[q], e)
                         ELSE queue[q]]

\* a step in which the generator of q takes the oldest event of its queue
DequeueStep(q) ==
    /\ queue[q] # <<>>
    /\ queue' = [queue EXCEPT ![q] = Tail(@)]
    /\ sub'[q].seen = Append(sub[q].seen, Head(queue[q]))

\* C18: fan-out and isolation.  Every step leaves the queues alone, publishes one
\* event of a meeting on exactly the queues registered for that meeting, or hands
\* the oldest event of one queue to its subscriber; a subscriber's stream holds
\* events of its own meeting only; of two queues registered for the same meeting the
\* events of one are the latest events of the other, in the same order.
C18_FanOut ==
    /\ [](\A q \in QueueIds :
             \A i \in 1..Len(Stream(q)) : Stream(q)[i].meeting = sub[q].m)
    /\ [](\A m \in DOMAIN connections :
             \A q1, q2 \in Range(connections[m]) :
                 IsSuffix(QueueEvents(q1), QueueEvents(q2))
                     \/ IsSuffix(QueueEvents(q2), QueueEvents(q1)))
    /\ [][\/ queue' = queue
          \/ \E m \in DOMAIN connections : PublishStep(m)
          \/ \E q \in QueueIds : DequeueStep(q)]_vars

\* two clients are registered for the same meeting and each has received the
\* message_start and a message_typing event of a message
C18_Witness ==
    \E m \in DOMAIN connections :
        /\ Cardinality(Range(connections[m])) >= 2
        /\ \A q \in Range(connections[m]) :
              \E i, j \in 1..Len(sub[q].seen) :
                  /\ i < j
                  /\ sub[q].seen[i].type = "message_start"
                  /\ sub[q].seen[j].type = "message_typing"
                  /\ sub[q].seen[j].msg = sub[q].seen[i].msg

\* the events of message id in the stream of q
MessageEvents(q, id) ==
    SelectIdx(Stream(q),
              {i \in 1..Len(Stream(q)) :
                  Stream(q)[i].type \in MessageEventTypes /\ Stream(q)[i].msg = id},
              1)

\* the typewriter broadcast of message id has sent its last event
TypewriterDone(id) ==
    \E l \in LoopIds : loops[l].cur = id /\ loops[l].pc \notin {"typing", "typing_sleep"}

\* C19: typewriter order.  For a stored message of n characters the events with its
\* message_id that a client connected throughout is sent are, in this order, one
\* message_start, message_typing events with current_position 1, 2, ... and the
\* prefix of that length as partial_content, and one message_complete with the
\* whole text; once the broadcast has returned all n + 2 of them have been sent.
C19_TypewriterOrder ==
    \A q \in {k \in QueueIds : sub[k].pc = "listen"}, id \in 1..Len(messages) :
        LET chars == Chars(messages[id].content)
            n == Len(chars)
            E == MessageEvents(q, id)
        IN /\ Len(E) <= n + 2
           /\ \A k \in 1..Len(E) :
                 /\ k = 1 => E[k].type = "message_start"
                 /\ (1 < k /\ k <= n + 1) =>
                        /\ E[k].type = "message_typing"
                        /\ E[k].pos = k - 1
                        /\ E[k].text = SubSeq(chars, 1, k - 1)
                 /\ k = n + 2 => E[k].type = "message_complete" /\ E[k].text = chars
           /\ (sub[q].m = messages[id].meeting /\ TypewriterDone(id)) => Len(E) = n + 2

\* a client has received every event of an empty message and of a message of at
\* least two characters
C19_Witness ==
    \E q \in QueueIds, id0, id2 \in 1..Len(messages) :
        /\ sub[q].pc = "listen"
        /\ queue[q] = <<>>
        /\ Len(Chars(messages[id0].content)) = 0
        /\ Len(Chars(messages[id2].content)) >= 2
        /\ Len(MessageEvents(q, id0)) = 2
        /\ Len(MessageEvents(q, id2)) = Len(Chars(messages[id2].content)) + 2

\* the turns of task l whose commit failed: they passed the filter of the turn and
\* were not persisted
FailedCommits(l) ==
    {i \in 1..Len(loops[l].gen) :
        /\ ~loops[l].gen[i].persisted
        /\ KeepTurn(loops[l].gen[i].content, loops[l].loaded \cup PersistedBefore(l, i))}

\* the message_start events of task l in the stream of q
StartsOf(q, l) ==
    {i \in 1..Len(Stream(q)) :
        Stream(q)[i].type = "message_start" /\ Stream(q)[i].loop = l}

\* C20: persist before delivery.  Every typewriter event sent to a client carries
\* the id of a row that is stored for the same meeting, and a client connected
\* throughout is sent one message_start for every row a task has stored and none
\* for a turn whose commit failed.
C20_PersistBeforeDelivery ==
    \A q \in QueueIds :
        /\ \A i \in 1..Len(Stream(q)) :
              Stream(q)[i].type \in MessageEventTypes =>
                  /\ Stream(q)[i].msg \in 1..Len(messages)
                  /\ messages[Stream(q)[i].msg].meeting = Stream(q)[i].meeting
                  /\ messages[Stream(q)[i].msg].loop = Stream(q)[i].loop
        /\ \A l \in LoopIds :
              (sub[q].pc = "listen" /\ loops[l].m = sub[q].m) =>
                  /\ Cardinality(StartsOf(q, l)) = Cardinality(PersistedTurns(l))
                  /\ Cardinality(StartsOf(q, l))
                        = Cardinality({i \in 1..Len(messages) : messages[i].loop = l})

\* a commit of a task has failed and a later turn of the task has been stored and
\* its message_start has reached the client
C20_Witness ==
    \E q \in QueueIds, l \in LoopIds :
        /\ sub[q].pc = "listen"
        /\ \E i \in FailedCommits(l), j \in PersistedTurns(l) : i < j
        /\ \E k \in 1..Len(sub[q].seen) :
              sub[q].seen[k].type = "message_start" /\ sub[q].seen[k].loop = l

\* C21: generation failure never stalls an interview.  Every turn of a loop in
\* interview mode yields a response, and the turn is persisted (and so broadcast)
\* unless its text repeats a message the task loaded or persisted before.
C21_InterviewFallback ==
    \A l \in LoopIds :
        loops[l].is_interview =>
            \A i \in 1..Len(loops[l].gen) :
                /\ loops[l].gen[i].content # NoResponse
                /\ loops[l].gen[i].content \notin (loops[l].loaded \cup PersistedBefore(l, i))
                       => loops[l].gen[i].persisted

NewlyDropped == {q \in QueueIds : sub'[q].dropped /\ ~sub[q].dropped}

\* C23: a failing subscriber is contained.  In a step in which puts raise during a
\* broadcast to meeting m, the failing queues leave the list of m and get nothing,
\* every other queue of m gets the event once, and the lists of the other meetings
\* stay as they were.
C23_SendFailureContained ==
    [][NewlyDropped # {} =>
          \E m \in DOMAIN connections :
              LET regs == Range(connections[m])
              IN /\ NewlyDropped \subseteq regs
                 /\ Range(QueuesOf(connections', m)) = regs \ NewlyDropped
                 /\ \A k \in DOMAIN connections \ {m} :
                       QueuesOf(connections', k) = connections[k]
                 /\ \A q \in QueueIds \ (regs \ NewlyDropped) : queue'[q] = queue[q]
                 /\ \A q \in regs \ NewlyDropped :
                       /\ Len(queue'[q]) = Len(queue[q]) + 1
                       /\ SubSeq(queue'[q], 1, Len(queue[q])) = queue[q]
                       /\ queue'[q][Len(queue'[q])].meeting = m
                       /\ queue'[q][Len(queue'[q])].type = "conversation_paused"]_vars

\* a put has raised on the queue of one client of a meeting while a second client of
\* the meeting, which is still registered, was sent the event
C23_Witness ==
    \E q1, q2 \in QueueIds :
        /\ sub[q1].dropped
        /\ sub[q1].pc = "listen"
        /\ Pauses(q1) = {}
        /\ sub[q2].m = sub[q1].m
        /\ q2 \in Range(QueuesOf(connections, sub[q2].m))
        /\ Pauses(q2) # {}

\* C24: subscriber lifetime.  A queue whose stream has ended is in no list of the
\* dict and gets no further event, and no key of the dict holds an empty list.
C24_SubscriberLifetime ==
    /\ [](\A m \in DOMAIN connections : connections[m] # <<>>)
    /\ [](\A q \in QueueIds :
             sub[q].pc = "closed" =>
                 \A m \in DOMAIN connections : q \notin Range(connections[m]))
    /\ [][\A q \in QueueIds : sub[q].pc = "closed" => queue'[q] = queue[q]]_vars

\* the first client of a meeting has left without a pause event, the second client of
\* the meeting has been sent one, and the other meeting has no key
C24_Witness ==
    \E q1, q2 \in QueueIds :
        /\ q1 < q2
        /\ sub[q1].pc = "closed"
        /\ Pauses(q1) = {}
        /\ sub[q2].m = sub[q1].m
        /\ q2 \in Range(QueuesOf(connections, sub[q2].m))
        /\ Pauses(q2) # {}
        /\ DOMAIN connections = {sub[q2].m}

\* C25: initialization fails without participants.  schedule/start is refused for a
\* meeting id without a row and for a meeting without participants, and an id that
\* was only ever refused has no state dict, no task and no persona of its own, and
\* nothing was broadcast for it.
C25_InitNeedsParticipants ==
    \A m \in MeetingIds :
        /\ (m \notin Meetings \/ meeting_cfg[m].participants = <<>>)
               => start_status[m] \in {0, 500}
        /\ start_status[m] = 500 =>
               /\ m \in Meetings => active_meetings[m] = 0
               /\ \A s \in StateIds : meeting_state[s].meeting # m \/ meeting_state[s] = NoState
               /\ \A c \in CycleIds : cycles[c].m # m \/ cycles[c] = NoCycle
               /\ \A e \in ws_sent : e.meeting # m
               /\ (\A k \in MeetingIds : start_status[k] # 200) => agents = <<>>

\* schedule/start has been refused for an id without a row and for a meeting without
\* participants
C25_Witness ==
    /\ \E m \in Meetings : meeting_cfg[m].participants = <<>> /\ start_status[m] = 500
    /\ \E m \in MeetingIds \ Meetings : start_status[m] = 500

\* C26: the scheduled loop is bounded.  iteration_count, which the loop compares
\* with max_iterations, counts every turn the loop has attempted, so that the loop
\* returns after at most max_iterations attempted turns whatever fails.
C26_LoopBounded ==
    \A c \in CycleIds :
        /\ cycles[c].attempts <= MaxIterations
        /\ cycles[c].attempts
              <= cycles[c].iteration_count + (IF cycles[c].pc = "awaiting" THEN 1 ELSE 0)

\* a step in which the scheduled loop of task c hands a turn to the generator
TurnStarts(c) == cycles[c].pc # "awaiting" /\ cycles'[c].pc = "awaiting"

TurnPersisted(c) ==
    /\ cycles[c].pc = "awaiting"
    /\ cycles'[c].pc = "sleeping"
    /\ Len(messages') = Len(messages) + 1

\* C28: low-confidence stop.  When the best score over the roster is below 0.1 the
\* loop ends without generating or persisting a turn for that speaker, and every
\* scheduled turn that is persisted was selected with a score of at least 0.1.
C28_LowConfidenceStop ==
    /\ [](\A c \in CycleIds :
             /\ cycles[c].score >= 0 /\ cycles[c].score < Scale \div 10
                    => cycles[c].pc = "done"
             /\ cycles[c].pc = "awaiting" => cycles[c].score >= Scale \div 10)
    /\ [][\A c \in CycleIds :
             /\ TurnPersisted(c) => cycles[c].score >= Scale \div 10
             /\ cycles[c].pc = "done" => /\ cycles'[c].pc = "done"
                                         /\ cycles'[c].attempts = cycles[c].attempts]_vars

\* a loop whose first selection scored below 0.1 has returned and nothing was stored
C28_Witness ==
    \E c \in CycleIds :
        /\ cycles[c].pc = "done"
        /\ cycles[c].score >= 0
        /\ cycles[c].score < Scale \div 10
        /\ cycles[c].attempts = 0
        /\ \A i \in 1..Len(messages) : messages[i].meeting # cycles[c].m

\* the rows of meeting m that turns of the scheduler have stored
TurnRows(m) ==
    LET IsTurnRow(r) == r.meeting = m /\ r.content.tpl \in {10, 11}
    IN SelectSeq(messages, IsTurnRow)

\* the rows that turns on session state s have stored, in the order stored
SessionRows(s) ==
    [i \in 1..Len(meeting_state[s].stored) |-> messages[meeting_state[s].stored[i]]]

\* the session states created for meeting m
SessionsOf(m) == {s \in StateIds : meeting_state[s].meeting = m}

\* C29: recent-speaker window.  In every session state, after any sequence of
\* scheduled and forced turns, last_speakers holds at most 10 ids, and they are the
\* speakers of the most recent persisted turns, in order, the most recent last.
\* The persisted turns of a meeting with one session are the rows its turns stored.
C29_RecentSpeakerWindow ==
    \A s \in StateIds :
        meeting_state[s] # NoState =>
            /\ Len(meeting_state[s].last_speakers) <= 10
            /\ meeting_state[s].last_speakers
                  = LastN([i \in 1..Len(SessionRows(s)) |-> SessionRows(s)[i].agent_id], 10)
            /\ Cardinality(SessionsOf(meeting_state[s].meeting)) = 1
                  => SessionRows(s) = TurnRows(meeting_state[s].meeting)

\* more than 10 turns of both agents were stored and the window holds the last 10
C29_Witness ==
    \E s \in StateIds :
        /\ meeting_state[s] # NoState
        /\ meeting_state[s].message_count > 10
        /\ Len(meeting_state[s].last_speakers) = 10
        /\ Range(meeting_state[s].last_speakers) = {1, 2}
        /\ \E c \in CycleIds : cycles[c].iteration_count = 1

\* C30: session state is destroyed at loop end.  When run_meeting_cycle(m) has
\* returned (completed, stopped, paused or failed), the session entry of m is
\* removed from active_meetings, so that get_next_speaker(m) and force_agent_speak
\* on m find no session afterwards.
C30_SessionDestroyed ==
    \A c \in CycleIds :
        cycles[c].pc = "done" => active_meetings[cycles[c].m] = 0

\* C31: interview partition fallback.  In interview mode, when no active persona
\* matches an interviewer keyword, the personas are split by list position: the
\* first half, at least one, are the interviewers and the rest the interviewees.
C31_PartitionFallback ==
    \A l \in LoopIds :
        LET L == loops[l]
            mid == Len(L.agent_configs) \div 2
        IN (/\ L.is_interview
            /\ L.agent_configs # <<>>
            /\ \A i \in 1..Len(L.agent_configs) : ~IsInterviewerAgent(L.agent_configs[i]))
           => /\ L.interviewers = Take(L.agent_configs, Max(mid, 1))
              /\ L.interviewees = SubSeq(L.agent_configs, mid + 1, Len(L.agent_configs))
              /\ Len(L.agent_configs) >= 2 => L.interviewers # <<>> /\ L.interviewees # <<>>

\* the turns of loop l that were persisted and whose broadcast has completed are
\* all the turns it has persisted
TurnsComplete(l) ==
    loops[l].message_count = Cardinality({i \in 1..Len(loops[l].gen) : loops[l].gen[i].persisted})

\* C32: round structure.  Every round of run_agent_conversation runs at most 2
\* turns, strictly one after the other; in an interview the question turn of
\* interviewers[r mod #interviewers] of round r comes, with its row and its
\* broadcast, before the answer turn of interviewees[r mod #interviewees].
C32_RoundStructure ==
    /\ [](\A l \in LoopIds :
             LET L == loops[l]
             IN /\ \A i \in 1..Len(L.gen) :
                      /\ L.gen[i].turn \in {0, 1}
                      /\ L.gen[i].round <= L.round_num
                      /\ \A j \in 1..(i - 1) :
                            \/ L.gen[j].round < L.gen[i].round
                            \/ L.gen[j].round = L.gen[i].round /\ L.gen[j].turn < L.gen[i].turn
                      /\ L.is_interview =>
                            /\ L.gen[i].turn = 0 =>
                                  L.gen[i].agent
                                     = L.interviewers[(L.gen[i].round % Len(L.interviewers)) + 1]
                            /\ L.gen[i].turn = 1 =>
                                  /\ L.gen[i].agent
                                        = L.interviewees[(L.gen[i].round % Len(L.interviewees)) + 1]
                                  /\ i > 1
                                  /\ L.gen[i - 1].round = L.gen[i].round
                                  /\ L.gen[i - 1].turn = 0)
    /\ [][\A l \in LoopIds :
             Len(loops'[l].gen) > Len(loops[l].gen) =>
                 /\ Len(loops'[l].gen) = Len(loops[l].gen) + 1
                 /\ loops[l].cur = 0
                 /\ TurnsComplete(l)]_vars

\* an interview has generated the answer turn of its second round
C32_Witness ==
    \E l \in LoopIds :
        /\ loops[l].is_interview
        /\ \E i \in 1..Len(loops[l].gen) :
              /\ loops[l].gen[i].round = 1
              /\ loops[l].gen[i].turn = 1
              /\ loops[l].gen[i].agent # loops[l].gen[i - 1].agent

\* a discussion has persisted both turns of a round, one after the other
C32_WitnessDiscussion ==
    \E l \in LoopIds :
        /\ ~loops[l].is_interview
        /\ \E i \in 2..Len(loops[l].gen) :
              /\ loops[l].gen[i].persisted /\ loops[l].gen[i - 1].persisted
              /\ loops[l].gen[i].round = loops[l].gen[i - 1].round

\* C33: pacing clamp.  For every integer speaking_time_limit the interval
\* min(max(limit // 30, 3), 8) a loop sleeps after a turn lies in [3, 8] seconds,
\* is non-decreasing in the limit, and is 4 when the rule is absent.
C33_PacingClamp ==
    \A l \in LoopIds :
        loops[l].agent_configs # <<>> =>
            LET rules == meeting_cfg[loops[l].m].meeting_rules
                interval == loops[l].speaking_interval
            IN /\ interval \in 3..8
               /\ "speaking_time_limit" \notin DOMAIN rules => interval = 4
               /\ "speaking_time_limit" \in DOMAIN rules =>
                     /\ interval = speaking_interval(rules)
                     /\ \A t \in {rules.speaking_time_limit - 1, rules.speaking_time_limit + 1,
                                   0 - LargeLimit, LargeLimit} \cap PacingLimits :
                           LET other == speaking_interval([speaking_time_limit |-> t])
                           IN /\ t <= rules.speaking_time_limit => other <= interval
                              /\ t >= rules.speaking_time_limit => other >= interval
                     /\ rules.speaking_time_limit < 90 => interval = 3
                     /\ rules.speaking_time_limit >= 240 => interval = 8
                     /\ rules.speaking_time_limit \in 120..149 => interval = 4

\* a loop set up under a negative limit paces its turns by 3 seconds
C33_Witness ==
    \E l \in LoopIds :
        /\ loops[l].agent_configs # <<>>
        /\ "speaking_time_limit" \in DOMAIN meeting_cfg[loops[l].m].meeting_rules
        /\ meeting_cfg[loops[l].m].meeting_rules.speaking_time_limit < 0
        /\ loops[l].speaking_interval = 3
        /\ loops[l].pc = "turn_sleep"

(***************************************************************************)
(* Two meetings on the one scheduler of the process.  get_meeting_scheduler *)
(* (meeting_scheduler.py lines 516-526) hands every request the same       *)
(* MeetingScheduler, whose agent_manager is built once (line 24); meeting  *)
(* 1 has participant 1 only and meeting 2 has participant 2 only.          *)
(***************************************************************************)
SessionIds == 1..(MaxStarts + 1)

SharedSchedulerInit ==
    /\ meeting_cfg \in {[m \in Rooms |->
                            [status |-> "active", topic |-> <<"budget", "plan">>,
                             meeting_rules |-> ru, participants |-> <<m>>,
                             duration_limit |-> 0, speaking_priority |-> 10]] :
                         ru \in ConfiguredRules}
    /\ agents_config \in {t \in AgentTables : t[1].name = <<"alice">>}
    /\ messages = <<>>
    /\ active_conversations = {}
    /\ connections = NoConnections
    /\ queue = [q \in QueueIds |-> <<>>]
    /\ sub = [q \in QueueIds |-> NoSub]
    /\ loops = [l \in LoopIds |-> NoLoop]
    /\ running = 0
    /\ ScoreIdle
    /\ RosterIdle
    /\ active_meetings = [m \in Rooms |-> 0]
    /\ meeting_state = [s \in SessionIds |-> NoState]
    /\ cycles = [c \in SessionIds |-> NoCycle]
    /\ forces = [f \in ForceIds |-> NoForce]
    /\ ws_sent = {}
    /\ agent_ver = [id \in RosterIds |-> 0]
    /\ controls = 0
    /\ start_status = [m \in Rooms |-> 0]

SharedSchedulerNext ==
    \/ \E m \in Rooms : start_intelligent_scheduling(m)
    \/ \E m \in Rooms : stop_meeting(m)
    \/ \E c \in SessionIds : run_meeting_cycle(c)
    \/ \E c \in SessionIds, kind \in ReplyKinds : process_speaking_turn(c, kind, TRUE)
    \/ \E f \in ForceIds, m \in Rooms, id \in AgentIds : force_agent_speak(f, m, id)
    \/ \E f \in ForceIds, kind \in ReplyKinds : force_agent_speak_done(f, kind)

SpecSharedScheduler == SharedSchedulerInit /\ [][SharedSchedulerNext]_vars

\* C34: after initialize_meeting has run for two meetings, the speaker a scheduled
\* turn of m was given by get_next_speaker(m), and the persona a force-speak
\* request on m was accepted with, is a participant of m.
C34_RosterPerSession ==
    /\ \A c \in DOMAIN cycles :
          cycles[c].pc = "awaiting" =>
              cycles[c].agent \in Range(meeting_cfg[cycles[c].m].participants)
    /\ \A f \in DOMAIN forces :
          forces[f].pc = "awaiting" =>
              forces[f].agent \in Range(meeting_cfg[forces[f].m].participants)

\* C35: for every sequence of starts with and without force_restart, meeting m is
\* in active_conversations exactly when a run_agent_conversation task for m is
\* scheduled or running; a task that ends does not take away the marker of
\* another task of m that still runs.
C35_MarkerMatchesLoops ==
    \A m \in Meetings : m \in active_conversations <=> LiveLoopsOf(m) # {}

\* C36: for every sequence of POST schedule/start requests for m, one made while
\* a run_meeting_cycle task of m is still running included, at most one
\* run_meeting_cycle task of m is running (its loop entered and not yet left).
C36_OneScheduledLoop ==
    \A m \in DOMAIN active_meetings : Cardinality(RunningCycles(m)) <= 1

\* C37: on every subscriber queue of a meeting, between the message_start and a
\* later event of the same message (up to its message_complete) no event of
\* another message appears, whatever starts and force restarts were made.
C37_TypewriterNotInterleaved ==
    \A q \in QueueIds :
        LET S == Stream(q)
        IN \A i, j \in 1..Len(S) :
              (/\ i < j
               /\ S[i].type = "message_start"
               /\ S[j].type \in MessageEventTypes
               /\ S[j].msg = S[i].msg) =>
                  \A k \in (i + 1)..(j - 1) :
                      S[k].type \in MessageEventTypes => S[k].msg = S[i].msg

(***************************************************************************)
(* Clients that connect while the conversation of a meeting runs: alice    *)
(* and bob discuss for one round, conversations are started without        *)
(* force_restart, and up to MaxSubs clients connect at any moment.         *)
(***************************************************************************)
LateSubscriberInit ==
    /\ Init
    /\ \A m \in Meetings : meeting_cfg[m] = [status |-> "active", topic |-> <<"budget", "plan">>,
                                            meeting_rules |-> [discussion_rounds |-> 1],
                                            participants |-> <<1, 2>>, duration_limit |-> 0,
                                            speaking_priority |-> 10]
    /\ agents_config[1].name = <<"alice">>

LateSubscriberNext ==
    \/ \E m \in Meetings : start_meeting_conversation(m, FALSE)
    \/ \E l \in LoopIds : LoopStart(l)
    \/ \E l \in LoopIds : LoopRoundBegin(l)
    \/ \E l \in LoopIds : LoopTurn(l, TRUE)
    \/ \E l \in LoopIds : LoopTyping(l)
    \/ \E l \in LoopIds : LoopWake(l)
    \/ \E l \in LoopIds : LoopFinally(l)
    \/ \E q \in QueueIds, m \in Meetings : SubConnect(q, m)
    \/ \E q \in QueueIds : SubReplay(q)
    \/ \E q \in QueueIds : SubGet(q)

SpecLateSubscriber == LateSubscriberInit /\ [][LateSubscriberNext]_vars

\* message id is in the replay of q: yielded as existing_message, or still to be
Replayed(q, id) ==
    \/ \E i \in 1..Len(sub[q].seen) :
          sub[q].seen[i].type = "existing_message" /\ sub[q].seen[i].msg = id
    \/ \E i \in 1..Len(sub[q].replay) : sub[q].replay[i].id = id

\* q was sent a typewriter event of message id
SentLive(q, id) ==
    \E i \in 1..Len(Stream(q)) :
        Stream(q)[i].type \in MessageEventTypes /\ Stream(q)[i].msg = id

\* C38: a subscriber gets each message once.  For a client that connects while a
\* conversation runs, `connected` is its first event, and no stored message
\* reaches it both as an existing_message of the replay and in typewriter events;
\* once the replay is over and the typewriter has finished, a stored message of
\* its meeting has reached it in one of the two ways.
C38_DeliveredOnce ==
    \A q \in QueueIds :
        sub[q].pc # "off" =>
            /\ Stream(q)[1].type = "connected"
            /\ \A id \in 1..Len(messages) :
                  /\ ~(Replayed(q, id) /\ SentLive(q, id))
                  /\ (sub[q].pc = "listen" /\ messages[id].meeting = sub[q].m
                         /\ TypewriterDone(id)) =>
                        (Replayed(q, id) \/ SentLive(q, id))

\* the turns of task l before turn i that were stored
StoredBefore(l, i) == {k \in 1..(i - 1) : loops[l].gen[k].persisted}

\* turn i of task l was dropped because its text was loaded or stored before
DuplicateDrop(l, i) ==
    /\ ~loops[l].gen[i].persisted
    /\ loops[l].gen[i].content # NoResponse
    /\ loops[l].gen[i].content \in loops[l].loaded \cup PersistedBefore(l, i)

\* every speaker of round r of task l had a turn, and every turn was a duplicate
RoundDropped(l, r) ==
    LET turns == {i \in 1..Len(loops[l].gen) : loops[l].gen[i].round = r}
    IN /\ Cardinality(turns) = Len(TurnAgents(loops[l]))
       /\ \A i \in turns : DuplicateDrop(l, i)

\* C39: duplicate drops are absorbing in a discussion.  The message_count of a loop
\* is the number of turns it has stored and finished broadcasting, the text of a
\* turn is the discussion template for its persona and that count, and after a
\* round whose turns were all dropped as duplicates every later turn of the loop is
\* dropped as a duplicate too; the loop still runs all its rounds and ends with
\* conversation_ended.
C39_DuplicateDropsAbsorbing ==
    \A l \in LoopIds :
        (~loops[l].is_interview /\ loops[l].agent_configs # <<>>) =>
            LET L == loops[l]
                stored == {i \in 1..Len(L.gen) : L.gen[i].persisted}
            IN /\ L.message_count =
                     Cardinality(stored) - (IF L.pc \in {"typing", "typing_sleep"} THEN 1 ELSE 0)
               /\ \A i \in 1..Len(L.gen) :
                     L.gen[i].content =
                        generate_discussion_response(agents_config[L.gen[i].agent],
                            meeting_cfg[L.m].topic, Cardinality(StoredBefore(l, i)))
               /\ \A r \in 0..(L.rounds - 1) :
                     RoundDropped(l, r) =>
                        \A j \in 1..Len(L.gen) : L.gen[j].round > r => DuplicateDrop(l, j)
               /\ L.pc = "done" =>
                     /\ L.ended
                     /\ Len(L.gen) = L.rounds * Len(TurnAgents(L))

\* a task has ended its conversation after a round whose turns were all dropped and
\* at least one further round, in which nothing was stored
C39_Witness ==
    \E l \in LoopIds :
        /\ ~loops[l].is_interview
        /\ loops[l].pc = "done"
        /\ loops[l].ended
        /\ \E r \in 0..(loops[l].rounds - 2) :
              /\ RoundDropped(l, r)
              /\ \E j \in 1..Len(loops[l].gen) : loops[l].gen[j].round > r

====
